---- MODULE Spec2Model ----
(***************************************************************************)
(* A model of the OAuth token manager: the document stores                 *)
(* (auth/datastore/*.py, auth/local_datastore.py), the decorators          *)
(* (auth/decorators.py) and the credential lifecycle manager               *)
(* (auth/credentials.py).                                                  *)
(*                                                                         *)
(* Python values are modelled as follows.  A document (a dict) is a TLA+   *)
(* function from a finite set of keys to values.  A call's result is a     *)
(* tagged record: NoneV for None, Dict(d) for a returned dict, and so on.  *)
(* A raised exception is the name of its class in the field exc of the     *)
(* call's outcome ("none" when the call returned).                         *)
(***************************************************************************)
EXTENDS Integers, Sequences, FiniteSets, TLC

\* ------------------------------------------------------------------ bounds

\* The secret store holds at most MaxVersions versions, all containers
\* together (a write that would add one more is not taken).
MaxVersions == 2

\* The loop of implicit_create is followed for at most MaxAttempts calls of
\* the wrapped function.
MaxAttempts == 3

\* A secret that holds the token of a manager's user gets at most
\* MaxTokenVersions versions.
MaxTokenVersions == 3

\* The clock runs from 0 to MaxTime ticks.
MaxTime == 3

\* A manager's project_credentials is read at most MaxReads times.
MaxReads == 3

\* The secret store of the step-by-step update holds at most MaxStepVersions
\* versions.
MaxStepVersions == 3

\* At most MaxUploads uploads are made.
MaxUploads == 1

\* A second has TicksPerSecond ticks: a datetime is a number of ticks, its
\* text names whole seconds.
TicksPerSecond == 2

\* The lookahead of Credentials.credentials: relativedelta(minutes=60).
LookaheadMinutes == 60

\* ------------------------------------------------------ universes of inputs

Ids == {"a", "b"}

Keys == {"k", "j"}

\* Document values: 0 is falsy, 1 is truthy.
Values == {0, 1}

EmptyDoc == [k \in {} |-> 0]

\* The documents callers pass and blobs hold at construction: the empty one,
\* one with a falsy value, one with a truthy value, one with two keys.  The
\* operations build the others out of them.
InputDocs == {EmptyDoc, [k \in {"k"} |-> 0], [k \in {"k"} |-> 1],
              [k \in Keys |-> IF k = "k" THEN 0 ELSE 1]}

\* The documents the callers of two instances on one blob pass.
TwoDocs == {[k \in {"k"} |-> 1], [k \in {"j"} |-> 1]}

\* ---------------------------------------------------------- Python values

NoneV == [kind |-> "None"]

Dict(d) == [kind |-> "dict", v |-> d]

KeysView(s) == [kind |-> "keys", v |-> s]

\* Python truthiness of a document (an empty dict is falsy).
TruthyDoc(d) == DOMAIN d # {}

\* Python truthiness of a value (zero is falsy).
TruthyVal(v) == v # 0

\* dict.update: the keys of new overwrite, the others are kept.
DictUpdate(old, new) ==
  [k \in (DOMAIN old) \cup (DOMAIN new) |->
     IF k \in DOMAIN new THEN new[k] ELSE old[k]]

\* dict.pop(key) on a dict that has the key.
DictPop(d, key) == [k \in (DOMAIN d) \ {key} |-> d[k]]

\* ------------------------------------------------- JSON text of the mapping

\* json.dumps of the id -> document mapping: the text names every document
\* and every entry of every document.
JsonDumps(m) ==
  [ids   |-> DOMAIN m,
   items |-> UNION {{<<i, k, m[i][k]>> : k \in DOMAIN m[i]} : i \in DOMAIN m}]

\* json.loads of such a text.
JsonLoads(t) ==
  [i \in t.ids |->
     [k \in {e[2] : e \in {x \in t.items : x[1] = i}} |->
        (CHOOSE e \in t.items : e[1] = i /\ e[2] = k)[3]]]

\* A blob: absent (no file), or a text.  An empty file has text "".
NoBlob == [exists |-> FALSE, empty |-> TRUE, text |-> JsonDumps(EmptyDoc)]

EmptyBlob == [exists |-> TRUE, empty |-> TRUE, text |-> JsonDumps(EmptyDoc)]

BlobOf(m) == [exists |-> TRUE, empty |-> FALSE, text |-> JsonDumps(m)]

\* What parsing the blob yields (a missing or empty blob yields {}).
ParseBlob(b) == IF b.exists /\ ~b.empty THEN JsonLoads(b.text) ELSE EmptyDoc

\* ------------------------------------------------------------ the state

VARIABLES
  backend,     \* the concrete store class of the store instance
  datastore,   \* file-backed stores: the in-memory id -> document mapping
  loaded,      \* file-backed stores: whether the lazy mapping was loaded
  blob,        \* file-backed stores: the persisted blob
  secrets,     \* Secret Manager: container id -> sequence of versions
  collection,  \* Firestore: document id -> document
  last,        \* the last call on the store and its outcome
  instanceB,   \* file-backed stores: a second instance on the same blob
  email,          \* Credentials: self._email
  token_details,  \* Credentials: the attribute _lazy_token_details
  project_credentials,  \* Credentials: _lazy_project_credentials
  now,            \* the clock, in ticks
  read            \* the last call on the manager and its outcome

storeVars == <<backend, datastore, loaded, blob, secrets, collection>>

managerVars == <<email, token_details, project_credentials, now, read>>

vars == <<backend, datastore, loaded, blob, secrets, collection, last,
          instanceB,
          email, token_details, project_credentials, now, read>>

\* The store instance as one value, for the operators below.
Store ==
  [backend |-> backend, datastore |-> datastore, loaded |-> loaded,
   blob |-> blob, secrets |-> secrets, collection |-> collection]

\* The outcome of a call: the store afterwards, the value returned (NoneV
\* when the call raised), the exception raised ("none" when it returned),
\* how often the call wrote and read the blob, and (Secret Manager) how
\* often it called the wrapped write, ran the creator, and was answered
\* NotFound by the write.
Out(st, ret, exc, writes, reads) ==
  [st |-> st, ret |-> ret, exc |-> exc, writes |-> writes, reads |-> reads,
   attempts |-> 0, creates |-> 0, notfound |-> 0]

Raise(o, exc) == [o EXCEPT !.ret = NoneV, !.exc = exc]

\* "No key given": None, which Python's `if key:` treats like "".
NoKey == ""

\* ------------------------------------------------- the file-backed stores

\* A property that reads the blob at every access.
LazyDatastoreReloading(st) ==
  Out([st EXCEPT !.datastore = ParseBlob(st.blob), !.loaded = TRUE],
      NoneV, "none", 0, 1)

\* The lazy `datastore` property: the first access reads the blob (a missing
\* or empty blob gives {}) and keeps the mapping; later ones return it.
LazyDatastore(st) ==
  IF st.loaded
    THEN Out(st, NoneV, "none", 0, 0)
    ELSE Out([st EXCEPT !.datastore = ParseBlob(st.blob), !.loaded = TRUE],
             NoneV, "none", 0, 1)

\* The `finally` of persist: the whole mapping is written over the blob,
\* whether f returned or raised; f's result or exception is passed on.
Persist(o) ==
  [o EXCEPT !.st.blob = BlobOf(o.st.datastore), !.writes = o.writes + 1]

\* A get_document that returns the document itself, not wrapped under its id.
FileGetDocumentUnwrapped(st, id, key) ==
  LET o  == LazyDatastore(st)
      ds == o.st.datastore
  IN  IF id \in DOMAIN ds /\ TruthyDoc(ds[id])
        THEN IF key # NoKey
               THEN IF key \in DOMAIN ds[id] /\ TruthyVal(ds[id][key])
                      THEN [o EXCEPT !.ret = Dict([k \in {key} |-> ds[id][key]])]
                      ELSE o
               ELSE [o EXCEPT !.ret = Dict(ds[id])]
        ELSE o

\* FileDatastore.get_document (LocalDatastore's is the same code).
FileGetDocument(st, id, key) ==
  LET o  == LazyDatastore(st)
      ds == o.st.datastore
  IN  IF id \in DOMAIN ds /\ TruthyDoc(ds[id])
        THEN IF key # NoKey
               THEN IF key \in DOMAIN ds[id] /\ TruthyVal(ds[id][key])
                      THEN [o EXCEPT !.ret = Dict([k \in {key} |-> ds[id][key]])]
                      ELSE o
               ELSE [o EXCEPT !.ret = Dict([i \in {id} |-> ds[id]])]
        ELSE o

\* FileDatastore.list_documents (LocalDatastore's is the same code).
FileListDocuments(st, key) ==
  LET o  == LazyDatastore(st)
      ds == o.st.datastore
  IN  IF DOMAIN ds # {}
        THEN IF key # NoKey
               THEN IF key \in DOMAIN ds /\ TruthyDoc(ds[key])
                      THEN [o EXCEPT !.ret = KeysView(DOMAIN ds[key])]
                      ELSE o
               ELSE [o EXCEPT !.ret = Dict(ds)]
        ELSE o

\* The body of store_document: self.datastore.update({id: document}).
StoreBody(st, id, document) ==
  LET o == LazyDatastore(st)
  IN  [o EXCEPT !.st.datastore =
         DictUpdate(o.st.datastore, [i \in {id} |-> document])]

\* FileDatastore.store_document, under @persist.
FileStoreDocument(st, id, document) == Persist(StoreBody(st, id, document))

\* FileDatastore.update_document, under @persist: an existing (truthy)
\* document is updated in place, otherwise store_document is called, which
\* persists on its own.
FileUpdateDocument(st, id, new_data) ==
  LET o  == LazyDatastore(st)
      ds == o.st.datastore
  IN  IF id \in DOMAIN ds /\ TruthyDoc(ds[id])
        THEN Persist([o EXCEPT !.st.datastore[id] = DictUpdate(ds[id], new_data)])
        ELSE LET inner == FileStoreDocument(o.st, id, new_data)
             IN  Persist([inner EXCEPT !.reads = o.reads + inner.reads])

\* The body of delete_document; the KeyError of a missing id or key is
\* swallowed.
DeleteBody(st, id, key) ==
  LET o  == LazyDatastore(st)
      ds == o.st.datastore
  IN  IF key # NoKey
        THEN IF id \in DOMAIN ds /\ TruthyDoc(ds[id]) /\ key \in DOMAIN ds[id]
               THEN [o EXCEPT !.st.datastore[id] = DictPop(ds[id], key)]
               ELSE o
        ELSE IF id \in DOMAIN ds
               THEN [o EXCEPT !.st.datastore = DictPop(ds, id)]
               ELSE o

\* FileDatastore.delete_document: the line above it reads `persist`, not
\* `@persist`, so the method is not wrapped.
FileDeleteDocument(st, id, key) == DeleteBody(st, id, key)

\* LocalDatastore.store_document, under @persist.
LocalStoreDocument(st, id, document) == Persist(StoreBody(st, id, document))

\* LocalDatastore.update_document, under @persist: it has no else branch.
LocalUpdateDocument(st, id, new_data) ==
  LET o  == LazyDatastore(st)
      ds == o.st.datastore
  IN  IF id \in DOMAIN ds /\ TruthyDoc(ds[id])
        THEN Persist([o EXCEPT !.st.datastore[id] = DictUpdate(ds[id], new_data)])
        ELSE Persist(o)

\* LocalDatastore.delete_document, under @persist.
LocalDeleteDocument(st, id, key) == Persist(DeleteBody(st, id, key))

\* --------------------------------------------------------- Secret Manager

\* json.dumps of one document, the payload of a secret version.
PayloadOf(document) == {<<k, document[k]>> : k \in DOMAIN document}

\* json.loads of a payload.
DocumentOf(payload) ==
  [k \in {e[1] : e \in payload} |-> (CHOOSE e \in payload : e[1] = k)[2]]

\* A version as the service returns it; create_time grows with every
\* version added to a container, so the version's number stands for it.
SecretVersion(n) == [kind |-> "version", create_time |-> n]

\* What the service may do to one request, beyond answering from its state:
\* "error" fails the request with an error other than NotFound; "gone" has
\* another client delete the container just before the request arrives.
Faults == {"ok", "error", "gone"}

\* The environment of one call: the fault of its first request, the fault
\* of every retried write, whether create_secret succeeds, and the fault of
\* listing the versions.
Envs == [first : Faults, retry : Faults, createOk : BOOLEAN,
         listFault : {"ok", "error"}]

\* The environment in which nothing fails.
NoFault == [first |-> "ok", retry |-> "ok", createOk |-> TRUE,
            listFault |-> "ok"]

\* client.add_secret_version, the body of SecretManager.store_document.
AddSecretVersion(st, id, document, fault) ==
  LET sec == IF fault = "gone"
               THEN [i \in (DOMAIN st.secrets) \ {id} |-> st.secrets[i]]
               ELSE st.secrets
      st1 == [st EXCEPT !.secrets = sec]
      o   == [Out(st1, NoneV, "none", 0, 0) EXCEPT !.attempts = 1]
  IN  IF fault = "error"
        THEN Raise(o, "GoogleAPICallError")
        ELSE IF id \notin DOMAIN sec
               THEN Raise(o, "NotFound")
               ELSE [o EXCEPT
                       !.st.secrets[id] =
                          Append(sec[id], [payload |-> PayloadOf(document),
                                           enabled |-> TRUE]),
                       !.ret = SecretVersion(Len(sec[id]) + 1)]

\* SecretManager.create_secret: any failure of the request is printed, and
\* the `return response` that follows raises UnboundLocalError.
CreateSecret(st, id, createOk) ==
  LET o == [Out(st, NoneV, "none", 0, 0) EXCEPT !.creates = 1]
  IN  IF createOk /\ id \notin DOMAIN st.secrets
        THEN [o EXCEPT !.st.secrets =
                [i \in (DOMAIN st.secrets) \cup {id} |->
                   IF i = id THEN << >> ELSE st.secrets[i]],
                       !.ret = [kind |-> "secret"]]
        ELSE Raise(o, "UnboundLocalError")

\* A wrapper that forgets that the creator ran.
RanCreatorNeverSet == FALSE

\* implicit_create: `ran_creator = True` after the creator has run.
RanCreatorAfterCreator == TRUE

\* implicit_create: a NotFound after the creator has run ends the call with
\* `return None`.
SecondNotFound(o) == [o EXCEPT !.ret = NoneV, !.exc = "none"]

\* A wrapper that catches every exception of the wrapped function.
CaughtWhateverRaised(exc) ==
  exc # "none"

\* implicit_create: `except exceptions.NotFound`.
CaughtNotFound(exc) ==
  exc = "NotFound"

\* The wrapper of implicit_create around store_document: the loop state is
\* ran_creator and the counts of calls made so far.  A call that would go
\* past MaxAttempts ends the model's loop with exc = "diverged".
RECURSIVE ImplicitCreate(_, _, _, _, _, _, _, _)
ImplicitCreate(st, id, document, env, ran_creator, attempts, creates, notfound) ==
  IF attempts >= MaxAttempts
    THEN [Out(st, NoneV, "diverged", 0, 0) EXCEPT
            !.attempts = attempts, !.creates = creates,
            !.notfound = notfound]
    ELSE
      LET f  == AddSecretVersion(st, id, document,
                                 IF attempts = 0 THEN env.first ELSE env.retry)
          fo == [f EXCEPT !.attempts = attempts + 1, !.creates = creates,
                          !.notfound = notfound +
                                       (IF f.exc = "NotFound" THEN 1 ELSE 0)]
      IN  IF CaughtNotFound(f.exc)
            THEN IF ran_creator
                   THEN SecondNotFound(fo)
                   ELSE LET c == CreateSecret(f.st, id, env.createOk)
                        IN  IF c.exc # "none"
                              THEN [fo EXCEPT !.exc = c.exc,
                                              !.creates = creates + 1]
                              ELSE ImplicitCreate(c.st, id, document, env,
                                                  RanCreatorAfterCreator,
                                                  attempts + 1, creates + 1,
                                                  fo.notfound)
            ELSE fo

\* SecretManager.store_document, under @implicit_create(create_secret).
SecretStoreDocument(st, id, document, env) ==
  ImplicitCreate(st, id, document, env, FALSE, 0, 0, 0)

\* A loop that destroys every enabled version up to the new one.
NotNewerVersion(n, new_version) ==
  n <= new_version.create_time

\* update_document: `version.create_time < new_version.create_time`.
OlderVersion(n, new_version) ==
  n < new_version.create_time

\* An update_document that adds the new version and destroys nothing.
SecretUpdateDocumentKeepingOlder(st, id, new_data, env) ==
  LET s == SecretStoreDocument(st, id, new_data, env)
  IN  IF s.exc # "none"
        THEN s
        ELSE IF env.listFault = "error"
               THEN Raise(s, "GoogleAPICallError")
               ELSE IF id \notin DOMAIN s.st.secrets
                      THEN Raise(s, "NotFound")
                      ELSE [s EXCEPT !.ret = NoneV]

\* SecretManager.update_document: store_document, then every enabled
\* version created before the new one is destroyed.  With new_version None
\* the comparison raises AttributeError when there is a version to compare.
SecretUpdateDocument(st, id, new_data, env) ==
  LET s == SecretStoreDocument(st, id, new_data, env)
  IN  IF s.exc # "none"
        THEN s
        ELSE IF env.listFault = "error"
               THEN Raise(s, "GoogleAPICallError")
               ELSE IF id \notin DOMAIN s.st.secrets
                      THEN Raise(s, "NotFound")
                      ELSE LET vs == s.st.secrets[id]
                               en == {n \in 1 .. Len(vs) : vs[n].enabled}
                           IN  IF s.ret = NoneV
                                 THEN IF en = {}
                                        THEN s
                                        ELSE Raise(s, "AttributeError")
                                 ELSE [s EXCEPT
                                         !.ret = NoneV,
                                         !.st.secrets[id] =
                                            [n \in 1 .. Len(vs) |->
                                               IF vs[n].enabled /\
                                                  OlderVersion(n, s.ret)
                                                 THEN [payload |-> {},
                                                       enabled |-> FALSE]
                                                 ELSE vs[n]]]

\* The try block of SecretManager.get_document: access_secret_version of the
\* version aliased "latest", the newest one, then json.loads of its payload.
\* The service refuses with NotFound when there is no such secret or
\* version and with FailedPrecondition when the version is destroyed; the
\* fault "unparseable" has the service return bytes (the payload another
\* client wrote) that json.loads rejects.
AccessLatest(st, id, fault) ==
  LET o == Out(st, NoneV, "none", 0, 0)
  IN  IF fault = "error" THEN Raise(o, "GoogleAPICallError")
      ELSE IF id \notin DOMAIN st.secrets \/ Len(st.secrets[id]) = 0
        THEN Raise(o, "NotFound")
      ELSE IF ~st.secrets[id][Len(st.secrets[id])].enabled
        THEN Raise(o, "FailedPrecondition")
      ELSE IF fault = "unparseable" THEN Raise(o, "JSONDecodeError")
      ELSE [o EXCEPT !.ret =
              Dict(DocumentOf(st.secrets[id][Len(st.secrets[id])].payload))]

\* A get_document without its except clause.
SecretGetDocumentRaising(st, id, key, fault) == AccessLatest(st, id, fault)

\* SecretManager.get_document: any exception of the try block is printed
\* and None returned.  key is unused.
SecretGetDocument(st, id, key, fault) ==
  LET a == AccessLatest(st, id, fault)
  IN  IF a.exc # "none" THEN [a EXCEPT !.ret = NoneV, !.exc = "none"] ELSE a

\* The version a key names: versions are named by their numbers.
VersionNamed(key) == IF key = "1" THEN 1 ELSE IF key = "2" THEN 2 ELSE 0

\* SecretManager.delete_document: destroy_secret_version with a key,
\* delete_secret without; an error of the request is not caught.
SecretDeleteDocument(st, id, key, fault) ==
  LET o == Out(st, NoneV, "none", 0, 0)
      n == VersionNamed(key)
  IN  IF fault = "error"
        THEN Raise(o, "GoogleAPICallError")
        ELSE IF id \notin DOMAIN st.secrets
               THEN Raise(o, "NotFound")
               ELSE IF key # NoKey
                      THEN IF n \in 1 .. Len(st.secrets[id])
                             THEN IF st.secrets[id][n].enabled
                                    THEN [o EXCEPT !.st.secrets[id][n] =
                                            [payload |-> {}, enabled |-> FALSE]]
                                    ELSE Raise(o, "FailedPrecondition")
                             ELSE Raise(o, "NotFound")
                      ELSE [o EXCEPT !.st.secrets =
                              [i \in (DOMAIN st.secrets) \ {id} |->
                                 st.secrets[i]]]

\* SecretManager.list_documents: the names of all secrets; key is unused.
SecretListDocuments(st, key, fault) ==
  LET o == Out(st, NoneV, "none", 0, 0)
  IN  IF fault = "error"
        THEN Raise(o, "GoogleAPICallError")
        ELSE [o EXCEPT !.ret = [kind |-> "list", v |-> DOMAIN st.secrets]]

\* --------------------------------------------------------------- Firestore

\* Firestore.get_document: `self.collection().document(id)` calls the
\* collection name, a str, which raises TypeError before any request.
FirestoreGetDocument(st, id, key) ==
  Raise(Out(st, NoneV, "none", 0, 0), "TypeError")

\* Firestore.store_document: DocumentReference.set.
FirestoreStoreDocument(st, id, document, fault) ==
  LET o == Out(st, NoneV, "none", 0, 0)
  IN  IF fault = "error"
        THEN Raise(o, "GoogleAPICallError")
        ELSE [o EXCEPT !.st.collection =
                DictUpdate(st.collection, [i \in {id} |-> document])]

\* Firestore.update_document: read the document, then update it when it
\* exists and create it when it does not.
FirestoreUpdateDocument(st, id, new_data, fault) ==
  LET o == Out(st, NoneV, "none", 0, 0)
  IN  IF fault = "error"
        THEN Raise(o, "GoogleAPICallError")
        ELSE IF id \in DOMAIN st.collection
               THEN [o EXCEPT !.st.collection[id] =
                       DictUpdate(st.collection[id], new_data)]
               ELSE [o EXCEPT !.st.collection =
                       DictUpdate(st.collection, [i \in {id} |-> new_data])]

\* Firestore.delete_document: with a key, update({key: DELETE_FIELD}), which
\* the service refuses with NotFound for a missing document; without, delete.
FirestoreDeleteDocument(st, id, key, fault) ==
  LET o == Out(st, NoneV, "none", 0, 0)
  IN  IF fault = "error"
        THEN Raise(o, "GoogleAPICallError")
        ELSE IF key # NoKey
               THEN IF id \in DOMAIN st.collection
                      THEN [o EXCEPT !.st.collection[id] =
                              [k \in (DOMAIN st.collection[id]) \ {key} |->
                                 st.collection[id][k]]]
                      ELSE Raise(o, "NotFound")
               ELSE [o EXCEPT !.st.collection =
                       [i \in (DOMAIN st.collection) \ {id} |->
                          st.collection[i]]]

\* Firestore.list_documents: the ids of the collection, or with a key the
\* keys of the document of that id (an empty list when there is none).
FirestoreListDocuments(st, key, fault) ==
  LET o == Out(st, NoneV, "none", 0, 0)
  IN  IF fault = "error"
        THEN Raise(o, "GoogleAPICallError")
        ELSE IF key # NoKey
               THEN [o EXCEPT !.ret =
                       [kind |-> "list",
                        v |-> IF key \in DOMAIN st.collection
                                THEN DOMAIN st.collection[key] ELSE {}]]
               ELSE [o EXCEPT !.ret =
                       [kind |-> "list", v |-> DOMAIN st.collection]]

\* Firestore.get_all_documents: what the client's list_documents yields, the
\* DocumentReference objects of the collection, not their ids.
FirestoreGetAllDocuments(st, fault) ==
  LET o == Out(st, NoneV, "none", 0, 0)
  IN  IF fault = "error"
        THEN Raise(o, "GoogleAPICallError")
        ELSE [o EXCEPT !.ret =
                [kind |-> "references", v |-> DOMAIN st.collection]]

\* ------------------------------------------- the store contract, dispatched

Backends == {"FileDatastore", "LocalDatastore", "SecretManager", "Firestore"}

FileBacked == {"FileDatastore", "LocalDatastore"}

\* datastore.get_document(id, key) on the bound store.
GetDocument(st, id, key, env) ==
  CASE st.backend = "FileDatastore"  -> FileGetDocument(st, id, key)
    [] st.backend = "LocalDatastore" -> FileGetDocument(st, id, key)
    [] st.backend = "SecretManager"  ->
         SecretGetDocument(st, id, key, env.first)
    [] st.backend = "Firestore"      -> FirestoreGetDocument(st, id, key)

\* datastore.store_document(id, document) on the bound store.
StoreDocument(st, id, document, env) ==
  CASE st.backend = "FileDatastore"  -> FileStoreDocument(st, id, document)
    [] st.backend = "LocalDatastore" -> LocalStoreDocument(st, id, document)
    [] st.backend = "SecretManager"  ->
         SecretStoreDocument(st, id, document, env)
    [] st.backend = "Firestore"      ->
         FirestoreStoreDocument(st, id, document, env.first)

\* datastore.update_document(id, new_data) on the bound store.
UpdateDocument(st, id, new_data, env) ==
  CASE st.backend = "FileDatastore"  -> FileUpdateDocument(st, id, new_data)
    [] st.backend = "LocalDatastore" -> LocalUpdateDocument(st, id, new_data)
    [] st.backend = "SecretManager"  ->
         SecretUpdateDocument(st, id, new_data, env)
    [] st.backend = "Firestore"      ->
         FirestoreUpdateDocument(st, id, new_data, env.first)

\* datastore.delete_document(id, key) on the bound store.
DeleteDocument(st, id, key, env) ==
  CASE st.backend = "FileDatastore"  -> FileDeleteDocument(st, id, key)
    [] st.backend = "LocalDatastore" -> LocalDeleteDocument(st, id, key)
    [] st.backend = "SecretManager"  ->
         SecretDeleteDocument(st, id, key, env.first)
    [] st.backend = "Firestore"      ->
         FirestoreDeleteDocument(st, id, key, env.first)

\* datastore.get_all_documents() on the bound store. SecretManager does not
\* define it and inherits AbstractDatastore's, which raises.
GetAllDocuments(st, env) ==
  CASE st.backend \in FileBacked       -> FileListDocuments(st, NoKey)
    [] st.backend = "SecretManager"    ->
         Raise(Out(st, NoneV, "none", 0, 0), "NotImplementedError")
    [] st.backend = "Firestore"        ->
         FirestoreGetAllDocuments(st, env.first)

\* datastore.list_documents(key) on the bound store.
ListDocuments(st, key, env) ==
  CASE st.backend = "FileDatastore"  -> FileListDocuments(st, key)
    [] st.backend = "LocalDatastore" -> FileListDocuments(st, key)
    [] st.backend = "SecretManager"  ->
         SecretListDocuments(st, key, env.first)
    [] st.backend = "Firestore"      ->
         FirestoreListDocuments(st, key, env.first)

\* --------------------------------------------------- the lifecycle manager

\* Python's None as the manager's email.
NoEmail == "None"

\* The emails a manager is constructed with: a user's, the empty string, None.
Emails == {"a@b", "", NoEmail}

\* encode_key: the base64 text of the key's UTF-8 bytes with the '=' padding
\* stripped.  None has no encode (AttributeError, which the except clause
\* for KeyEncodingError does not catch); an empty result is falsy and the
\* function falls off its end, returning None, which as an id names nothing.
EncodeKey(key) ==
  CASE key = NoEmail -> [ret |-> NoEmail, exc |-> "AttributeError"]
    [] key = ""      -> [ret |-> NoEmail, exc |-> "none"]
    [] key = "a@b"   -> [ret |-> "YUBi", exc |-> "none"]
    [] key = "a@"    -> [ret |-> "YUA", exc |-> "none"]

\* The fields of a serialized token.
TokenFields ==
  {"token", "refresh_token", "token_uri", "client_id", "client_secret",
   "scopes", "default_scopes", "expiry"}

\* strftime('%Y-%m-%dT%H:%M:%SZ') of a datetime (in ticks): the text names
\* whole seconds.
Strftime(t) == t \div TicksPerSecond

\* The datetime the library parses out of such a text.
Strptime(text) == text * TicksPerSecond

\* An oauth.Credentials object.
OAuthCredentials(info_token, expiry) ==
  [kind |-> "Credentials", token |-> info_token, refresh_token |-> 1,
   token_uri |-> 1, client_id |-> 1, client_secret |-> 1, scopes |-> 1,
   default_scopes |-> 0, expiry |-> expiry]

\* A _to_dict that leaves the scopes out.
ToDictWithoutScopes(credentials) ==
  [f \in TokenFields \ {"scopes", "default_scopes"} |->
     IF f = "expiry" THEN Strftime(credentials.expiry) ELSE credentials[f]]

\* Credentials._to_dict: the eight fields, the expiry as text.
ToDict(credentials) ==
  [f \in TokenFields |->
     IF f = "expiry" THEN Strftime(credentials.expiry) ELSE credentials[f]]

\* oauth.Credentials.from_authorized_user_info: ValueError unless the info
\* has refresh_token, client_id and client_secret at its top level.
FromAuthorizedUserInfo(info) ==
  IF {"refresh_token", "client_id", "client_secret"} \subseteq DOMAIN info
    THEN [ret |-> [kind |-> "Credentials",
                   token |-> IF "token" \in DOMAIN info
                               THEN info["token"] ELSE 0,
                   refresh_token |-> info["refresh_token"],
                   token_uri |-> 1,
                   client_id |-> info["client_id"],
                   client_secret |-> info["client_secret"],
                   scopes |-> IF "scopes" \in DOMAIN info
                                THEN info["scopes"] ELSE 0,
                   default_scopes |-> 0,
                   expiry |-> IF "expiry" \in DOMAIN info
                                THEN Strptime(info["expiry"]) ELSE 0],
          exc |-> "none"]
    ELSE [ret |-> NoneV, exc |-> "ValueError"]

\* oauth.Credentials.expired: the expiry is not after the clock.
Expired(creds, clock) == creds.expiry <= clock

\* The manager instance as one value.
Manager == [email |-> email, token_details |-> token_details]

\* The attribute _lazy_token_details: not there, or there with a value.
NoCache == [set |-> FALSE, v |-> NoneV]

Cached(v) == [set |-> TRUE, v |-> v]

\* The outcome of a call on the manager: the manager and the store
\* afterwards, the value returned, the exception raised, the exchanges with
\* the authorization server and the update_document calls in their order,
\* the id and data of the update_document call, and the email a
\* CredentialsError carries.
MOut(m, st, ret, exc) ==
  [m |-> m, st |-> st, ret |-> ret, exc |-> exc, events |-> << >>,
   update_id |-> NoEmail, update_data |-> EmptyDoc, error_email |-> NoEmail,
   refresh_failed |-> FALSE, from_object |-> FALSE, supplied |-> EmptyDoc]

\* The lazy property token_details: the first access that does not raise
\* keeps what get_document(id=encode_key(self._email)) returned, None
\* included; later ones return it without asking the store.
TokenDetails(m, st, env) ==
  IF m.token_details.set
    THEN MOut(m, st, m.token_details.v, "none")
    ELSE LET key == EncodeKey(m.email)
         IN  IF key.exc # "none"
               THEN MOut(m, st, NoneV, key.exc)
               ELSE LET g == GetDocument(st, key.ret, NoKey,
                                         [NoFault EXCEPT !.first = env.get])
                    IN  IF g.exc # "none"
                          THEN MOut(m, g.st, NoneV, g.exc)
                          ELSE MOut([m EXCEPT !.token_details = Cached(g.ret)],
                                    g.st, g.ret, "none")

\* isinstance(creds, oauth.Credentials)
IsCredentials(creds) == "kind" \in DOMAIN creds

\* A store_credentials without the test of the email.
StoreCredentialsWhateverEmail(o, creds, env) ==
  LET key == EncodeKey(o.m.email)
      new_data == IF IsCredentials(creds) THEN ToDict(creds) ELSE creds
      u   == UpdateDocument(o.st, key.ret, new_data, env.update)
  IN  IF key.exc # "none"
        THEN [o EXCEPT !.ret = NoneV, !.exc = key.exc]
        ELSE [o EXCEPT !.st = u.st,
                       !.ret = NoneV,
                       !.exc = u.exc,
                       !.events = Append(o.events, "update"),
                       !.update_id = key.ret,
                       !.update_data = new_data,
                       !.from_object = IsCredentials(creds),
                       !.supplied = creds]

\* A store_credentials that writes under the email as it is, not encoded.
StoreCredentialsUnderRawEmail(o, creds, env) ==
  IF o.m.email \in {"", NoEmail}
    THEN o
    ELSE LET new_data == IF IsCredentials(creds) THEN ToDict(creds) ELSE creds
             u   == UpdateDocument(o.st, o.m.email, new_data, env.update)
         IN  [o EXCEPT !.st = u.st,
                       !.ret = NoneV,
                       !.exc = u.exc,
                       !.events = Append(o.events, "update"),
                       !.update_id = o.m.email,
                       !.update_data = new_data,
                       !.from_object = IsCredentials(creds),
                       !.supplied = creds]

\* Credentials.store_credentials: nothing without an email, otherwise
\* update_document under the encoded email, of _to_dict(creds) for a
\* credentials object and of creds itself for a mapping.
StoreCredentials(o, creds, env) ==
  IF o.m.email \in {"", NoEmail}
    THEN o
    ELSE LET key == EncodeKey(o.m.email)
             new_data == IF IsCredentials(creds) THEN ToDict(creds) ELSE creds
             u   == UpdateDocument(o.st, key.ret, new_data, env.update)
         IN  [o EXCEPT !.st = u.st,
                       !.ret = NoneV,
                       !.exc = u.exc,
                       !.events = Append(o.events, "update"),
                       !.update_id = key.ret,
                       !.update_data = new_data,
                       !.from_object = IsCredentials(creds),
                       !.supplied = creds]

\* A _refresh_credentials that stores the credentials whether or not the
\* refresh succeeded.
RefreshCredentialsStoringAnyway(o, creds, clock, env) ==
  LET r == [o EXCEPT !.events = Append(o.events, "refresh")]
  IN  IF env.refresh = "fail"
        THEN LET s == StoreCredentials(r, creds, env)
             IN  [s EXCEPT !.ret = NoneV, !.exc = "RefreshError",
                           !.refresh_failed = TRUE]
        ELSE LET fresh == [creds EXCEPT !.token = creds.token + 1,
                                        !.expiry = clock + env.expires_in]
                 s == StoreCredentials(r, fresh, env)
             IN  IF s.exc # "none" THEN s
                 ELSE [s EXCEPT !.ret = [kind |-> "creds", v |-> fresh]]

\* Credentials._refresh_credentials: creds.refresh, which on success sets
\* the new access token and the expiry the server grants, then
\* store_credentials; an exception of the refresh ends the call there.
RefreshCredentials(o, creds, clock, env) ==
  LET r == [o EXCEPT !.events = Append(o.events, "refresh")]
  IN  IF env.refresh = "fail"
        THEN [r EXCEPT !.ret = NoneV, !.exc = "RefreshError",
                       !.refresh_failed = TRUE]
        ELSE LET fresh == [creds EXCEPT !.token = creds.token + 1,
                                        !.expiry = clock + env.expires_in]
                 s == StoreCredentials(r, fresh, env)
             IN  IF s.exc # "none" THEN s
                 ELSE [s EXCEPT !.ret = [kind |-> "creds", v |-> fresh]]

\* A CredentialsError that does not carry the email.
RaiseCredentialsErrorAnonymous(o) ==
  [o EXCEPT !.ret = NoneV, !.exc = "CredentialsError",
            !.error_email = NoEmail]

\* raise CredentialsError(message='credentials not found',
\*                        email=self._email)
RaiseCredentialsError(o) ==
  [o EXCEPT !.ret = NoneV, !.exc = "CredentialsError",
            !.error_email = o.m.email]

\* The property Credentials.credentials.
GetCredentials(m, st, clock, env) ==
  LET t == TokenDetails(m, st, env)
  IN  IF t.exc # "none"
        THEN t
        ELSE IF t.ret # NoneV /\ TruthyDoc(t.ret.v)
               THEN LET c == FromAuthorizedUserInfo(t.ret.v)
                    IN  IF c.exc # "none"
                          THEN [t EXCEPT !.ret = NoneV, !.exc = c.exc]
                          ELSE IF Expired(c.ret, clock)
                                 THEN RefreshCredentials(
                                        t,
                                        [c.ret EXCEPT !.expiry =
                                           clock + LookaheadMinutes * 60 *
                                                   TicksPerSecond],
                                        clock, env)
                                 ELSE [t EXCEPT !.ret =
                                         [kind |-> "creds", v |-> c.ret]]
               ELSE RaiseCredentialsError(t)

\* No call on the manager yet.
NoRead ==
  [op |-> "none", now |-> 0, ret |-> NoneV, exc |-> "none",
   events |-> << >>, update_id |-> NoEmail, update_data |-> EmptyDoc,
   error_email |-> NoEmail, refresh_failed |-> FALSE, token |-> NoneV,
   stored |-> NoneV, cached |-> FALSE, loaded |-> FALSE, get |-> "ok",
   persisted_same |-> TRUE, after_refresh |-> 0, from_object |-> FALSE,
   supplied |-> EmptyDoc]

\* ------------------------------------------------- the store's state machine

\* Whether the store holds something under id, as the store itself sees it.
Exists(st, id) ==
  CASE st.backend \in FileBacked       ->
         id \in DOMAIN LazyDatastore(st).st.datastore
    [] st.backend = "SecretManager"    -> id \in DOMAIN st.secrets
    [] st.backend = "Firestore"        -> id \in DOMAIN st.collection

RECURSIVE VersionCount(_, _)
VersionCount(sec, ids) ==
  IF ids = {} THEN 0
  ELSE LET i == CHOOSE x \in ids : TRUE
       IN  Len(sec[i]) + VersionCount(sec, ids \ {i})

\* Room for one more version in the secret store (always, for the others).
HasRoom == backend = "SecretManager" =>
             VersionCount(secrets, DOMAIN secrets) < MaxVersions

\* The environments a call can meet: a file-backed store makes no requests.
\* Only the first request of a call of one request can fail.
OneRequestEnvs ==
  {e \in Envs : e.first # "gone" /\ e.retry = "ok" /\ e.createOk /\
                e.listFault = "ok"}

\* The environments of update_document on the secret store.  The parts of
\* an environment that the call cannot come to consult are left at "ok":
\* nothing follows a failed first write, a failed creation or a failed
\* retry.  The first write is answered from the service's state or fails.
SecretEnvs ==
  {e \in Envs :
     /\ e.first # "gone"
     /\ e.first = "error" => e.retry = "ok" /\ e.createOk /\ e.listFault = "ok"
     /\ ~e.createOk => e.retry = "ok" /\ e.listFault = "ok"
     /\ e.retry = "error" => e.listFault = "ok"}

WriteEnvs ==
  IF backend = "SecretManager"
    THEN {e \in SecretEnvs : e.listFault = "ok"}
    ELSE IF backend = "Firestore" THEN OneRequestEnvs ELSE {NoFault}

UpdateEnvs ==
  IF backend = "SecretManager" THEN SecretEnvs ELSE WriteEnvs

ReadEnvs ==
  IF backend \in FileBacked THEN {NoFault} ELSE OneRequestEnvs

\* The environments of get_document: on the secret store the payload read
\* may also be one that does not parse.
GetEnvs ==
  IF backend = "SecretManager"
    THEN ReadEnvs \cup {[NoFault EXCEPT !.first = "unparseable"]}
    ELSE ReadEnvs

\* The keys a caller passes: a key of a document, or for the secret store
\* the name of a version.
CallKeys == Keys \cup {NoKey} \cup
            (IF backend = "SecretManager" THEN {"1"} ELSE {})

\* The call is over: the store is as the call left it, and last records the
\* call and its outcome.
Finish(op, id, key, arg, existed, out) ==
  LET o == out
  IN
  /\ backend' = o.st.backend
  /\ datastore' = o.st.datastore
  /\ loaded' = o.st.loaded
  /\ blob' = o.st.blob
  /\ secrets' = o.st.secrets
  /\ collection' = o.st.collection
  /\ last' = [op |-> op, id |-> id, key |-> key, arg |-> arg,
              existed |-> existed, ret |-> o.ret, exc |-> o.exc,
              writes |-> o.writes, reads |-> o.reads,
              attempts |-> o.attempts, creates |-> o.creates,
              notfound |-> o.notfound, was_loaded |-> loaded]
  /\ UNCHANGED <<managerVars, instanceB>>

CallStoreDocument ==
  \E id \in Ids, document \in InputDocs, env \in WriteEnvs :
    /\ HasRoom
    /\ Finish("store_document", id, NoKey, document, Exists(Store, id),
              StoreDocument(Store, id, document, env))

CallUpdateDocument ==
  \E id \in Ids, new_data \in InputDocs, env \in UpdateEnvs :
    /\ HasRoom
    /\ Finish("update_document", id, NoKey, new_data, Exists(Store, id),
              UpdateDocument(Store, id, new_data, env))

CallDeleteDocument ==
  \E id \in Ids, key \in CallKeys, env \in ReadEnvs :
    Finish("delete_document", id, key, EmptyDoc, Exists(Store, id),
           DeleteDocument(Store, id, key, env))

CallGetDocument ==
  \E id \in Ids, key \in CallKeys, env \in GetEnvs :
    Finish("get_document", id, key, EmptyDoc, Exists(Store, id),
           GetDocument(Store, id, key, env))

CallListDocuments ==
  \E key \in Ids \cup {NoKey}, env \in ReadEnvs :
    Finish("list_documents", key, key, EmptyDoc,
           key # NoKey /\ Exists(Store, key),
           ListDocuments(Store, key, env))

CallGetAllDocuments ==
  \E env \in ReadEnvs :
    Finish("get_all_documents", NoKey, NoKey, EmptyDoc, FALSE,
           GetAllDocuments(Store, env))

\* The mappings a blob may hold when the store instance is constructed.
Mappings == UNION {[ids -> InputDocs] : ids \in SUBSET Ids}

\* The second instance, when there is none or it has loaded nothing yet.
NoOther == [datastore |-> EmptyDoc, loaded |-> FALSE]

NoCall ==
  [op |-> "none", id |-> NoKey, key |-> NoKey, arg |-> EmptyDoc,
   existed |-> FALSE, ret |-> NoneV, exc |-> "none", writes |-> 0,
   reads |-> 0, attempts |-> 0, creates |-> 0, notfound |-> 0,
   was_loaded |-> FALSE]

\* A store instance right after construction: nothing loaded, the blob or
\* the remote service holding whatever was there before.
Init ==
  /\ backend \in Backends
  /\ datastore = EmptyDoc
  /\ loaded = FALSE
  /\ blob \in IF backend \in FileBacked
               THEN {NoBlob, EmptyBlob} \cup {BlobOf(m) : m \in Mappings}
               ELSE {NoBlob}
  /\ secrets = EmptyDoc
  /\ collection \in IF backend = "Firestore" THEN Mappings ELSE {EmptyDoc}
  /\ last = NoCall
  /\ instanceB = NoOther
  /\ email = NoEmail
  /\ token_details = NoCache
  /\ project_credentials = NoCache
  /\ now = 0
  /\ read = NoRead

Next ==
  \/ CallStoreDocument
  \/ CallUpdateDocument
  \/ CallDeleteDocument
  \/ CallGetDocument
  \/ CallListDocuments
  \/ CallGetAllDocuments

Spec == Init /\ [][Next]_vars

\* ------------------------------------- two instances bound to the same blob

Instances == {"A", "B"}

\* The store as the instance sees it: its own mapping, the blob both share.
StoreOf(instance) ==
  IF instance = "A"
    THEN Store
    ELSE [Store EXCEPT !.datastore = instanceB.datastore,
                       !.loaded = instanceB.loaded]

\* The mapping the instance holds in memory.
MappingOf(instance) ==
  IF instance = "A" THEN datastore ELSE instanceB.datastore

\* The call on the instance is over: the instance and the blob are as the
\* call left them, the other instance is as it was.
FinishOn(instance, op, id, key, arg, out) ==
  LET o == out
  IN
  /\ datastore' = IF instance = "A" THEN o.st.datastore ELSE datastore
  /\ loaded' = IF instance = "A" THEN o.st.loaded ELSE loaded
  /\ instanceB' = IF instance = "A"
                THEN instanceB
                ELSE [datastore |-> o.st.datastore, loaded |-> o.st.loaded]
  /\ blob' = o.st.blob
  /\ last' = [op |-> op, id |-> id, key |-> key, arg |-> arg,
              existed |-> id \in DOMAIN MappingOf(instance),
              ret |-> o.ret, exc |-> o.exc,
              writes |-> o.writes, reads |-> o.reads,
              attempts |-> o.attempts, creates |-> o.creates,
              notfound |-> o.notfound, instance |-> instance,
              was_loaded |-> StoreOf(instance).loaded,
              dropped |-> {i \in DOMAIN ParseBlob(blob) :
                             i \notin DOMAIN ParseBlob(o.st.blob)}]
  /\ UNCHANGED <<backend, secrets, collection, managerVars>>

StoreDocumentOn ==
  \E instance \in Instances, id \in Ids, document \in TwoDocs :
    FinishOn(instance, "store_document", id, NoKey, document,
             StoreDocument(StoreOf(instance), id, document, NoFault))

UpdateDocumentOn ==
  \E instance \in Instances, id \in Ids, new_data \in TwoDocs :
    FinishOn(instance, "update_document", id, NoKey, new_data,
             UpdateDocument(StoreOf(instance), id, new_data, NoFault))

DeleteDocumentOn ==
  \E instance \in Instances, id \in Ids, key \in {NoKey, "k"} :
    FinishOn(instance, "delete_document", id, key, EmptyDoc,
             DeleteDocument(StoreOf(instance), id, key, NoFault))

GetDocumentOn ==
  \E instance \in Instances, id \in Ids :
    FinishOn(instance, "get_document", id, NoKey, EmptyDoc,
             GetDocument(StoreOf(instance), id, NoKey, NoFault))

\* Two file-backed store instances right after construction, bound to the
\* same blob, which holds whatever was there before.
InitTwo ==
  /\ backend \in FileBacked
  /\ datastore = EmptyDoc
  /\ loaded = FALSE
  /\ blob \in {NoBlob} \cup
              {BlobOf(m) : m \in UNION {[ids -> TwoDocs] : ids \in SUBSET Ids}}
  /\ secrets = EmptyDoc
  /\ collection = EmptyDoc
  /\ last = NoCall
  /\ instanceB = NoOther
  /\ email = NoEmail
  /\ token_details = NoCache
  /\ project_credentials = NoCache
  /\ now = 0
  /\ read = NoRead

NextTwo ==
  \/ StoreDocumentOn
  \/ UpdateDocumentOn
  \/ DeleteDocumentOn
  \/ GetDocumentOn

SpecTwo == InitTwo /\ [][NextTwo]_vars

\* ------------------------------------------------- the manager's state machine

\* The token the store holds under an id, as the bound store instance has
\* it: a document, or None.
StoredToken(st, id) ==
  CASE st.backend \in FileBacked ->
         LET ds == LazyDatastore(st).st.datastore
         IN  IF id \in DOMAIN ds THEN Dict(ds[id]) ELSE NoneV
    [] st.backend = "SecretManager" ->
         IF id \in DOMAIN st.secrets /\ Len(st.secrets[id]) > 0 /\
            st.secrets[id][Len(st.secrets[id])].enabled
           THEN Dict(DocumentOf(st.secrets[id][Len(st.secrets[id])].payload))
           ELSE NoneV
    [] st.backend = "Firestore" ->
         IF id \in DOMAIN st.collection
           THEN Dict(st.collection[id]) ELSE NoneV

\* What the store keeps outside the store instance.
Persisted(st) == <<st.blob, st.secrets, st.collection>>

\* The lifetimes (in ticks) the authorization server grants.
ExpiresIn == {2, 3}

\* The environment of one call on the manager: whether the store answers
\* the read, whether the refresh succeeds and the lifetime it grants, and
\* the environment of the update_document call.  The parts a call cannot
\* come to consult are left at their first value: nothing follows a read
\* that fails or a refresh that fails.
CredEnvs ==
  {e \in [get : IF backend \in FileBacked THEN {"ok"} ELSE {"ok", "error"},
          refresh : {"ok", "fail"},
          expires_in : ExpiresIn,
          update : UpdateEnvs] :
     /\ e.get = "error" => e.refresh = "ok"
     /\ (e.get = "error" \/ e.refresh = "fail") =>
           (e.update = NoFault /\ \A x \in ExpiresIn : e.expires_in <= x)}

\* The environments of store_credentials, which only calls update_document.
StoreCredentialsEnvs ==
  {e \in CredEnvs : e.get = "ok" /\ e.refresh = "ok" /\
                    \A x \in ExpiresIn : e.expires_in <= x}

\* A serialized token with the given access token and expiry text.
Token(access, expiry) ==
  [f \in TokenFields |->
     CASE f = "token" -> access
       [] f = "expiry" -> expiry
       [] f = "default_scopes" -> 0
       [] OTHER -> 1]

\* The tokens a caller stores and a store holds at construction.
InputTokens == {Token(1, e) : e \in 0 .. (MaxTime \div TicksPerSecond)}

\* The call is over: manager and store are as the call left them, and read
\* records the call and its outcome.
FinishManager(op, out, env) ==
  LET o   == out
      key == EncodeKey(email)
  IN
  /\ (backend = "SecretManager" =>
        VersionCount(o.st.secrets, DOMAIN o.st.secrets) <= MaxTokenVersions)
  /\ backend' = o.st.backend
  /\ datastore' = o.st.datastore
  /\ loaded' = o.st.loaded
  /\ blob' = o.st.blob
  /\ secrets' = o.st.secrets
  /\ collection' = o.st.collection
  /\ email' = o.m.email
  /\ token_details' = o.m.token_details
  /\ read' = [op |-> op, now |-> now, ret |-> o.ret, exc |-> o.exc,
              events |-> o.events, update_id |-> o.update_id,
              update_data |-> o.update_data,
              from_object |-> o.from_object,
              supplied |-> o.supplied,
              error_email |-> o.error_email,
              refresh_failed |-> o.refresh_failed,
              token |-> IF o.m.token_details.set
                          THEN o.m.token_details.v ELSE NoneV,
              stored |-> IF key.exc = "none"
                           THEN StoredToken(Store, key.ret) ELSE NoneV,
              cached |-> token_details.set,
              loaded |-> o.m.token_details.set,
              get |-> IF token_details.set THEN "ok" ELSE env.get,
              persisted_same |-> Persisted(o.st) = Persisted(Store),
              after_refresh |->
                 IF read.op = "credentials" /\ read.exc = "none" /\
                    read.events = <<"refresh", "update">>
                   THEN read.ret.v.expiry ELSE 0]
  /\ UNCHANGED <<last, instanceB, now, project_credentials>>

\* A caller reads the property credentials.
CallCredentials ==
  \E env \in CredEnvs :
    FinishManager("credentials", GetCredentials(Manager, Store, now, env),
                  env)

\* A caller stores credentials: an oauth.Credentials object or a mapping.
CallStoreCredentials ==
  \E creds \in InputTokens \cup
               {OAuthCredentials(1, t) : t \in {1, MaxTime}},
     env \in StoreCredentialsEnvs :
    FinishManager("store_credentials",
                  StoreCredentials(MOut(Manager, Store, NoneV, "none"),
                                   creds, env),
                  env)

\* Time passes.
Tick ==
  /\ now < MaxTime
  /\ now' = now + 1
  /\ UNCHANGED <<storeVars, last, instanceB, email, token_details,
                 project_credentials, read>>

\* A manager right after construction, bound to its store; the store holds
\* a token under the id of the user "a@b", or nothing.
InitCred ==
  /\ backend \in Backends
  /\ datastore = EmptyDoc
  /\ loaded = FALSE
  /\ \E held \in {EmptyDoc} \cup
                  {[i \in {EncodeKey("a@b").ret} |-> t] : t \in InputTokens} :
       /\ blob = IF backend \in FileBacked
                   THEN (IF held = EmptyDoc THEN NoBlob ELSE BlobOf(held))
                   ELSE NoBlob
       /\ secrets = IF backend = "SecretManager"
                      THEN [i \in DOMAIN held |->
                              <<[payload |-> PayloadOf(held[i]),
                                 enabled |-> TRUE]>>]
                      ELSE EmptyDoc
       /\ collection = IF backend = "Firestore" THEN held ELSE EmptyDoc
  /\ last = NoCall
  /\ instanceB = NoOther
  /\ email \in Emails
  /\ token_details = NoCache
  /\ project_credentials = NoCache
  /\ now = 0
  /\ read = NoRead

NextCred ==
  \/ CallCredentials
  \/ CallStoreCredentials
  \/ Tick

SpecCred == InitCred /\ [][NextCred]_vars

\* ------------------------------------------------ auth_headers on its own

\* creds.apply(oauth2_header) on what the property credentials gave: the
\* header carries the access token of the credentials; an exception of the
\* property ends the call before.
Apply(credentials) ==
  LET c == credentials
  IN  IF c.exc # "none"
        THEN c
        ELSE [c EXCEPT !.ret = [kind |-> "headers",
                                authorization |-> c.ret.v.token]]

\* An auth_headers that builds the header from the token details as they
\* are, without the expiry test and the refresh.
AuthHeadersWithoutCheck(m, st, clock, env) ==
  LET t == TokenDetails(m, st, env)
  IN  IF t.exc # "none"
        THEN t
        ELSE IF t.ret # NoneV /\ TruthyDoc(t.ret.v)
               THEN LET c == FromAuthorizedUserInfo(t.ret.v)
                    IN  IF c.exc # "none"
                          THEN [t EXCEPT !.ret = NoneV, !.exc = c.exc]
                          ELSE Apply([t EXCEPT !.ret =
                                        [kind |-> "creds", v |-> c.ret]])
               ELSE RaiseCredentialsError(t)

\* The property Credentials.auth_headers: self.credentials, then apply.
AuthHeaders(m, st, clock, env) ==
  Apply(GetCredentials(m, st, clock, env))

\* A caller reads the property auth_headers.
CallAuthHeaders ==
  \E env \in CredEnvs :
    FinishManager("auth_headers", AuthHeaders(Manager, Store, now, env), env)

NextHeaders ==
  \/ CallAuthHeaders
  \/ Tick

SpecHeaders == InitCred /\ [][NextHeaders]_vars

\* ------------------------------------------- store_credentials on its own

\* A mapping a caller may store that is not a serialized token: it has an
\* access token and an expiry only.
PartialToken == [f \in {"token", "expiry"} |-> IF f = "token" THEN 1 ELSE 0]

\* The offsets from UTC of the zones of aware datetimes: none, one second.
UtcOffsets == {0, TicksPerSecond}

\* An oauth.Credentials object whose expiry is an aware datetime: expiry is
\* its wall-clock time, utcoffset the offset of its zone.
OAuthCredentialsAware(info_token, expiry, utcoffset) ==
  [kind |-> "Credentials", token |-> info_token, refresh_token |-> 1,
   token_uri |-> 1, client_id |-> 1, client_secret |-> 1, scopes |-> 1,
   default_scopes |-> 0, expiry |-> expiry, utcoffset |-> utcoffset]

\* The instant the expiry of a credentials object names, in ticks of UTC; a
\* naive expiry is in UTC.
Instant(creds) ==
  IF "utcoffset" \in DOMAIN creds
    THEN creds.expiry - creds.utcoffset ELSE creds.expiry

\* A caller stores credentials: an oauth.Credentials object with a naive or
\* an aware expiry, a serialized token, or another mapping.
CallStoreAnyCredentials ==
  \E creds \in InputTokens \cup {PartialToken} \cup
               {OAuthCredentials(1, t) : t \in {1, MaxTime}} \cup
               {OAuthCredentialsAware(1, MaxTime, z) : z \in UtcOffsets},
     env \in StoreCredentialsEnvs :
    FinishManager("store_credentials",
                  StoreCredentials(MOut(Manager, Store, NoneV, "none"),
                                   creds, env),
                  env)

NextStoreCred == CallStoreAnyCredentials

SpecStoreCred == InitCred /\ [][NextStoreCred]_vars

\* ------------------------------------------ the project credentials' machine

\* A str value of a document.
Str(s) == [kind |-> "str", v |-> s]

\* Python truthiness of a value: None, an empty dict and an empty str are
\* falsy.
Truthy(x) ==
  CASE x.kind = "None" -> FALSE
    [] x.kind = "dict" -> DOMAIN x.v # {}
    [] x.kind = "str"  -> x.v # ""
    [] OTHER           -> TRUE

\* dict.get(key): None when the dict has no such key.
DictGet(d, key) == IF key \in DOMAIN d THEN d[key] ELSE NoneV

\* The dataclass ProjectCredentials.
ProjectCredentials(client_id, client_secret) ==
  [kind |-> "ProjectCredentials", client_id |-> client_id,
   client_secret |-> client_secret]

\* What a get_document without a key returned, as a value: the file-backed
\* stores return a dict whose one value is the document, itself a dict.
Returned(st, ret) ==
  IF st.backend \in FileBacked /\ ret # NoneV
    THEN Dict([i \in DOMAIN ret.v |-> Dict(ret.v[i])])
    ELSE ret

\* The outcome of resolving the project credentials: the store afterwards,
\* the value, the exception, and the number of get_document calls made.
POut(st, ret, exc, gets) == [st |-> st, ret |-> ret, exc |-> exc, gets |-> gets]

\* The last lines of project_credentials: ProjectCredentials of the two
\* entries of the dict found when it is truthy, None otherwise.
\* Subscripting a str with a str raises TypeError, a dict without the key
\* KeyError.
MakeProjectCredentials(st, found, gets) ==
  IF ~Truthy(found)
    THEN POut(st, NoneV, "none", gets)
    ELSE IF found.kind # "dict"
      THEN POut(st, NoneV, "TypeError", gets)
    ELSE IF {"client_id", "client_secret"} \subseteq DOMAIN found.v
      THEN POut(st, ProjectCredentials(found.v["client_id"],
                                      found.v["client_secret"]),
                "none", gets)
    ELSE POut(st, NoneV, "KeyError", gets)

\* `secrets |= ...`: the union in place, the keys of the second dict
\* winning.
UnionInPlace(first, second) == Dict(DictUpdate(first.v, second.v))

\* client_secret.get('web') or client_secret.get('installed').
WebOrInstalled(client_secret) ==
  IF Truthy(DictGet(client_secret.v, "web"))
    THEN DictGet(client_secret.v, "web")
    ELSE DictGet(client_secret.v, "installed")

\* project_credentials once both get_document calls have returned: the
\* document client_id, when truthy, is united with the document
\* client_secret (`|=` with None raises TypeError); otherwise the document
\* client_secret, when truthy, gives its entry web, or installed when web
\* is missing or falsy.
AfterClientSecret(first, second) ==
  LET g1 == first
      g2 == second
      r1 == Returned(g1.st, g1.ret)
      r2 == Returned(g2.st, g2.ret)
  IN  IF g2.exc # "none" THEN POut(g2.st, NoneV, g2.exc, 2)
      ELSE IF Truthy(r1)
        THEN IF r2.kind # "dict"
               THEN POut(g2.st, NoneV, "TypeError", 2)
               ELSE MakeProjectCredentials(g2.st, UnionInPlace(r1, r2), 2)
      ELSE IF Truthy(r2)
        THEN MakeProjectCredentials(g2.st, WebOrInstalled(r2), 2)
      ELSE MakeProjectCredentials(g2.st, NoneV, 2)

\* project_credentials once get_document(id='client_id') is over: when it
\* returned, get_document(id='client_secret') is called, in the one branch
\* or in the other.
AfterClientId(first, env) ==
  LET g1 == first
  IN  IF g1.exc # "none"
        THEN POut(g1.st, NoneV, g1.exc, 1)
        ELSE AfterClientSecret(
               g1, GetDocument(g1.st, "client_secret", NoKey,
                               [NoFault EXCEPT !.first = env.second]))

\* The body of project_credentials.
ResolveProjectCredentials(st, env) ==
  AfterClientId(GetDocument(st, "client_id", NoKey,
                            [NoFault EXCEPT !.first = env.first]),
                env)

\* lazy_property, not hasattr: what f returned is set as the attribute; an
\* exception of f leaves the object without it.
SetLazy(cache, computed) ==
  LET o == computed
  IN  [out |-> o, cache |-> IF o.exc = "none" THEN Cached(o.ret) ELSE cache]

\* The lazy property project_credentials: the first resolution that does not
\* raise is kept, None included; later accesses return it without asking
\* the store.
LazyProjectCredentials(cache, st, env) ==
  IF cache.set
    THEN [out |-> POut(st, cache.v, "none", 0), cache |-> cache]
    ELSE SetLazy(cache, ResolveProjectCredentials(st, env))

\* The outcomes of the two get_document requests: each answered, or failed
\* (a failure only the secret store hides from its caller).
ProjectEnvs ==
  IF backend = "SecretManager"
    THEN [first : {"ok", "error"}, second : {"ok", "error"}]
    ELSE {[first |-> "ok", second |-> "ok"]}

\* The sub-objects of a client secrets file: complete, another complete
\* one, one without its client_secret, and an empty one.
SubObjects ==
  {Dict([k \in {"client_id", "client_secret"} |->
           IF k = "client_id" THEN Str("W") ELSE Str("X")]),
   Dict([k \in {"client_id", "client_secret"} |->
           IF k = "client_id" THEN Str("I") ELSE Str("J")]),
   Dict([k \in {"client_id"} |-> Str("W")]),
   Dict(EmptyDoc)}

\* The documents the store may hold under the id client_id.
ClientIdDocs ==
  {[k \in {"client_id"} |-> Str("A")],
   [k \in {"client_id", "client_secret"} |->
      IF k = "client_id" THEN Str("A") ELSE Str("C")],
   [k \in {"email"} |-> Str("client_id")],
   EmptyDoc}

\* The documents the store may hold under the id client_secret.
ClientSecretDocs ==
  {[k \in {"client_secret"} |-> Str("B")],
   [k \in {"client_id", "client_secret"} |->
      IF k = "client_id" THEN Str("D") ELSE Str("B")],
   [k \in {"email"} |-> Str("client_secret")],
   [k \in {"web"} |-> Str("W")],
   EmptyDoc}
  \cup {[k \in {"web"} |-> w] : w \in SubObjects}
  \cup {[k \in {"installed"} |-> i] : i \in SubObjects}
  \cup {[k \in {"web", "installed"} |-> IF k = "web" THEN w ELSE i] :
          w \in SubObjects, i \in SubObjects}

\* What the store may hold when the manager is constructed: a document, or
\* none, under each of the two ids.
ProjectMappings ==
  {[i \in ids |-> IF i = "client_id" THEN c ELSE s] :
     ids \in SUBSET {"client_id", "client_secret"},
     c \in ClientIdDocs, s \in ClientSecretDocs}

\* What the calls on this manager have added up to so far, for the fields
\* of read that count.
Counted(field) == IF read.op = "none" THEN 0 ELSE read[field]

\* The read of project_credentials is over: the store and the manager are
\* as it left them, and read records the access and its outcome.
FinishProject(result, env) ==
  LET r == result
  IN  /\ Counted("calls") < MaxReads
      /\ backend' = r.out.st.backend
      /\ datastore' = r.out.st.datastore
      /\ loaded' = r.out.st.loaded
      /\ blob' = r.out.st.blob
      /\ secrets' = r.out.st.secrets
      /\ collection' = r.out.st.collection
      /\ project_credentials' = r.cache
      /\ read' = [op |-> "project_credentials", ret |-> r.out.ret,
                  exc |-> r.out.exc, gets |-> r.out.gets,
                  cached |-> project_credentials.set, env |-> env,
                  calls |-> Counted("calls") + 1,
                  total_gets |-> Counted("total_gets") + r.out.gets,
                  resolutions |-> Counted("resolutions") +
                                  (IF project_credentials.set THEN 0 ELSE 1)]
      /\ UNCHANGED <<last, instanceB, email, token_details, now>>

\* A caller reads the property project_credentials.
CallProjectCredentials ==
  \E env \in ProjectEnvs :
    FinishProject(LazyProjectCredentials(project_credentials, Store, env),
                  env)

\* A store instance right after construction, of the class given.
NewStore(class) ==
  [backend |-> class, datastore |-> EmptyDoc, loaded |-> FALSE,
   blob |-> NoBlob, secrets |-> EmptyDoc, collection |-> EmptyDoc]

\* A setter that binds the manager to the store it is given.
SetDatastoreRebinding(st, f) == [st |-> f, exc |-> "none"]

\* The setter of the property datastore: it raises KeyError and assigns
\* nothing.
SetDatastore(st, f) == [st |-> st, exc |-> "KeyError"]

\* The assignment to the property datastore is over.
FinishSetDatastore(assigned, f) ==
  LET o == assigned
  IN  /\ Counted("calls") < MaxReads
      /\ backend' = o.st.backend
      /\ datastore' = o.st.datastore
      /\ loaded' = o.st.loaded
      /\ blob' = o.st.blob
      /\ secrets' = o.st.secrets
      /\ collection' = o.st.collection
      /\ read' = [op |-> "set_datastore", ret |-> NoneV, exc |-> o.exc,
                  gets |-> 0, cached |-> project_credentials.set,
                  env |-> [first |-> "ok", second |-> "ok"],
                  calls |-> Counted("calls") + 1,
                  total_gets |-> Counted("total_gets"),
                  resolutions |-> Counted("resolutions"),
                  assigned |-> f.backend]
      /\ UNCHANGED <<last, instanceB, email, token_details,
                     project_credentials, now>>

\* A caller assigns a store instance to the property datastore.
CallSetDatastore ==
  \E class \in Backends :
    FinishSetDatastore(SetDatastore(Store, NewStore(class)), NewStore(class))

\* A manager right after construction, bound to a store that holds the
\* project's documents, or some of them, or none.
InitProject ==
  /\ backend \in Backends
  /\ datastore = EmptyDoc
  /\ loaded = FALSE
  /\ \E held \in ProjectMappings :
       /\ blob = IF backend \in FileBacked
                   THEN (IF held = EmptyDoc THEN NoBlob ELSE BlobOf(held))
                   ELSE NoBlob
       /\ secrets = IF backend = "SecretManager"
                      THEN [i \in DOMAIN held |->
                              <<[payload |-> PayloadOf(held[i]),
                                 enabled |-> TRUE]>>]
                      ELSE EmptyDoc
       /\ collection = IF backend = "Firestore" THEN held ELSE EmptyDoc
  /\ last = NoCall
  /\ instanceB = NoOther
  /\ email \in Emails
  /\ token_details = NoCache
  /\ project_credentials = NoCache
  /\ now = 0
  /\ read = NoRead

NextProject ==
  \/ CallProjectCredentials
  \/ CallSetDatastore

SpecProject == InitProject /\ [][NextProject]_vars

\* =================================================== claims about the stores

\* What a caller can observe of a store without changing it: the result of
\* get_document for every id, with and without a key, and of list_documents
\* with and without a key, when no request fails.
Observable(st) ==
  [get  |-> [id \in Ids |->
               [key \in Keys \cup {NoKey} |->
                  LET g == GetDocument(st, id, key, NoFault)
                  IN  <<g.ret, g.exc>>]],
   list |-> [key \in Ids \cup {NoKey} |->
               LET l == ListDocuments(st, key, NoFault)
               IN  <<l.ret, l.exc>>]]

Mutators == {"store_document", "update_document", "delete_document"}

\* C1 (as claimed): on a file-backed store, after any store_document,
\* update_document or delete_document call has returned or raised, the
\* persisted blob, when parsed, equals the in-memory id -> document mapping.
C1_BlobEqualsMappingAfterMutation ==
  (backend \in FileBacked /\ last.op \in Mutators) =>
     ParseBlob(blob) = datastore

\* C7 (as claimed): on the secret store, a store_document call to a container
\* that does not exist runs the creator exactly once, calls the write at
\* most twice, and ends.
C7_Original ==
  (backend = "SecretManager" /\ last.op = "store_document" /\ ~last.existed)
     => (last.creates = 1 /\ last.attempts <= 2 /\ last.exc # "diverged")

\* C7 (amended): on the secret store, a store_document call (also the one
\* update_document makes) to a container that does not exist, whose first
\* write is answered NotFound, runs the creator exactly once, calls the write
\* at most twice, and ends, whatever the second write's outcome; and no call
\* runs the creator more than once or the write more than twice.
C7_OneCreateAtMostTwoWrites ==
  (backend = "SecretManager" /\ last.op \in {"store_document", "update_document"})
     => /\ last.exc # "diverged"
        /\ last.creates <= 1
        /\ last.attempts <= 2
        /\ (~last.existed /\ last.notfound >= 1) => last.creates = 1

\* C7's case: the container was missing, the creator ran, the write was
\* retried, and the call ended.
C7_Witness ==
  /\ backend = "SecretManager"
  /\ last.op = "store_document"
  /\ ~last.existed
  /\ last.creates = 1
  /\ last.attempts = 2
  /\ last.notfound = 2

\* C8 (as claimed): on the secret store, a store_document call whose write
\* is answered NotFound again after the creator ran raises an error to its
\* caller.
C8_SecondNotFoundPropagates ==
  (backend = "SecretManager" /\ last.op = "store_document" /\
   last.notfound = 2) => last.exc # "none"

\* C9 (as claimed): on every store, get_document(id) after a
\* store_document(id, D) that returned gives a document equal to D.
C9_Original ==
  (last.op = "store_document" /\ last.exc = "none") =>
     LET g == GetDocument(Store, last.id, NoKey, NoFault)
     IN  g.exc = "none" /\ g.ret = Dict(last.arg)

\* C10 (as claimed): on every store, update_document(id, new_data) on an id
\* that does not exist leaves the store observably as store_document(id,
\* new_data) would leave it (in the same environment).
C10_UpdateOfMissingIsStore ==
  [][(last'.op = "update_document" /\ ~last'.existed) =>
       \A env \in UpdateEnvs :
          LET u == UpdateDocument(Store, last'.id, last'.arg, env)
              s == StoreDocument(Store, last'.id, last'.arg, env)
          IN  (u.st = Store' /\ u.exc = last'.exc) =>
                 Observable(Store') = Observable(s.st)]_vars

\* ================================================== claims about the manager

\* The last call read credentials while the store held a token for the
\* manager's user whose expiry was not after the clock.
StoredTokenExpired ==
  /\ read.op = "credentials"
  /\ read.stored # NoneV
  /\ Strptime(read.stored.v["expiry"]) <= read.now

\* The last call read credentials while the store held a token for the
\* manager's user whose expiry was after the clock.
StoredTokenFresh ==
  /\ read.op = "credentials"
  /\ read.stored # NoneV
  /\ Strptime(read.stored.v["expiry"]) > read.now

\* C2 (as claimed): a credentials read on a manager whose stored token has
\* its expiry in the past, when it returns the credential, has made exactly
\* one refresh exchange followed by exactly one update_document call, with
\* id encode_key(email) and the serialized returned credential as new_data.
C2_ExpiredStoredTokenRefreshedOncePersistedOnce ==
  (StoredTokenExpired /\ read.exc = "none") =>
     /\ read.events = <<"refresh", "update">>
     /\ read.update_id = EncodeKey(email).ret
     /\ read.update_data = ToDict(read.ret.v)

\* C3 (as claimed): a credentials read on a manager whose stored token has
\* its expiry in the future, the store answering, makes no refresh exchange
\* and no store write, and returns the credential built from the stored
\* token as it is.
C3_FreshStoredTokenReturnedAsIs ==
  (StoredTokenFresh /\ read.get = "ok") =>
     /\ read.events = << >>
     /\ read.persisted_same
     /\ read.exc = "none"
     /\ read.ret = [kind |-> "creds",
                    v |-> FromAuthorizedUserInfo(read.stored.v).ret]

\* C4 (as claimed): the credentials read that follows, on the same manager
\* and before the new expiry, a credentials read that refreshed and
\* persisted an expired token makes no refresh exchange and no store write.
C4_NoRefreshAfterRefresh ==
  (read.op = "credentials" /\ read.after_refresh > read.now) =>
     read.events = << >>

\* C5: when the store returned no token for the manager's user, the
\* credentials read raises CredentialsError carrying the manager's email,
\* and makes no refresh exchange and no store write.
C5_AbsentTokenRaisesCredentialsError ==
  (read.op = "credentials" /\ read.loaded /\ read.token = NoneV) =>
     /\ read.exc = "CredentialsError"
     /\ read.error_email = email
     /\ read.events = << >>
     /\ read.persisted_same

\* C5's case: a manager of the user "a@b" asked the store, which had no
\* token for that user, and the read raised.
C5_Witness ==
  /\ read.op = "credentials"
  /\ email = "a@b"
  /\ ~read.cached /\ read.loaded
  /\ read.token = NoneV
  /\ read.stored = NoneV
  /\ read.exc = "CredentialsError"

\* C6: when the refresh exchange fails, the credentials read raises that
\* failure, has made that one exchange and no other, and has not written
\* to the store, which holds what it held.
C6_RefreshFailurePropagates ==
  (read.op = "credentials" /\ read.refresh_failed) =>
     /\ read.exc = "RefreshError"
     /\ read.ret = NoneV
     /\ read.events = <<"refresh">>
     /\ read.persisted_same
     /\ StoredToken(Store, EncodeKey(email).ret) = read.stored

\* C6's case: the store held an expired token, the read tried the refresh,
\* and the exchange failed.
C6_Witness ==
  /\ read.op = "credentials"
  /\ StoredTokenExpired
  /\ read.refresh_failed
  /\ read.exc = "RefreshError"

\* ========================================= claims about the stores, continued

\* C11 (as claimed): on every store, update_document(id, {k: v2}) that
\* returns, on an id that holds a document, is a shallow merge: afterwards
\* get_document(id, k) returns {k: v2}, every other key of the document has
\* the value it had, and no other document has changed.
C11_UpdateIsShallowMerge ==
  [][(/\ last'.op = "update_document"
      /\ last'.exc = "none"
      /\ Cardinality(DOMAIN last'.arg) = 1
      /\ StoredToken(Store, last'.id) # NoneV) =>
       LET id  == last'.id
           old == StoredToken(Store, id).v
           new == StoredToken(Store', id)
       IN  /\ \A k \in DOMAIN last'.arg :
                LET g == GetDocument(Store', id, k, NoFault)
                IN  g.exc = "none" /\
                    g.ret = Dict([x \in {k} |-> last'.arg[k]])
           /\ new # NoneV
           /\ \A k \in (DOMAIN old) \ (DOMAIN last'.arg) :
                k \in DOMAIN new.v /\ new.v[k] = old[k]
           /\ \A other \in Ids \ {id} :
                StoredToken(Store', other) = StoredToken(Store, other)]_vars

\* C12 (as claimed): on every store, delete_document(id, key) for an id and
\* key the store holds returns, get_document(id, key) then returns None, the
\* other keys of the document have the values they had, and no other
\* document has changed.
C12_DeleteKeyThenGetAbsent ==
  [][(/\ last'.op = "delete_document"
      /\ last'.key \in Keys
      /\ StoredToken(Store, last'.id) # NoneV
      /\ last'.key \in DOMAIN StoredToken(Store, last'.id).v) =>
       LET id  == last'.id
           old == StoredToken(Store, id).v
           g   == GetDocument(Store', id, last'.key, NoFault)
       IN  /\ last'.exc = "none"
           /\ g.exc = "none" /\ g.ret = NoneV
           /\ StoredToken(Store', id) = Dict(DictPop(old, last'.key))
           /\ \A other \in Ids \ {id} :
                StoredToken(Store', other) = StoredToken(Store, other)]_vars

\* C13 (as claimed): on every store, delete_document of an id the store does
\* not hold, or of a key that the document of an id does not have, raises
\* no error (the service answering) and leaves every document as it was.
C13_DeleteOfMissingIsNoOp ==
  [][(/\ last'.op = "delete_document"
      /\ last'.exc # "GoogleAPICallError"
      /\ last'.key \in Keys \cup {NoKey}
      /\ \/ ~Exists(Store, last'.id)
         \/ /\ last'.key # NoKey
            /\ StoredToken(Store, last'.id) # NoneV
            /\ last'.key \notin DOMAIN StoredToken(Store, last'.id).v) =>
       /\ last'.exc = "none"
       /\ \A id \in Ids : StoredToken(Store', id) = StoredToken(Store, id)]_vars

\* C14 (as claimed): on every store, get_document(id) for an id the store
\* does not hold, and get_document(id, key) for a key the document of id
\* does not have, raise nothing and return None.
C14_GetOfUnknownReturnsAbsent ==
  (/\ last.op = "get_document"
   /\ last.key \in Keys \cup {NoKey}
   /\ \/ StoredToken(Store, last.id) = NoneV
      \/ /\ last.key # NoKey
         /\ StoredToken(Store, last.id) # NoneV
         /\ last.key \notin DOMAIN StoredToken(Store, last.id).v) =>
     (last.exc = "none" /\ last.ret = NoneV)

\* C15 (as claimed): get_document(id, key) for an id the store holds and a
\* key its document has returns {key: value}, whatever the value (a falsy
\* one included).
C15_GetKeyReturnsEntry ==
  (/\ last.op = "get_document"
   /\ last.key \in Keys
   /\ StoredToken(Store, last.id) # NoneV
   /\ last.key \in DOMAIN StoredToken(Store, last.id).v) =>
     /\ last.exc = "none"
     /\ last.ret = Dict([k \in {last.key} |->
                           StoredToken(Store, last.id).v[k]])

EnabledVersions(sec, id) ==
  {n \in 1 .. Len(sec[id]) : sec[id][n].enabled}

\* C17: on the secret store, after an update_document(id, new_data) that
\* returned, the version the call added is the only enabled version of the
\* secret, and its payload is new_data.
C17_OnlyNewVersionEnabled ==
  (backend = "SecretManager" /\ last.op = "update_document" /\
   last.exc = "none") =>
     /\ last.id \in DOMAIN secrets
     /\ Len(secrets[last.id]) > 0
     /\ EnabledVersions(secrets, last.id) = {Len(secrets[last.id])}
     /\ secrets[last.id][Len(secrets[last.id])].payload = PayloadOf(last.arg)

\* C17's case: an update_document returned on a secret that had an enabled
\* version before, which is now destroyed.
C17_Witness ==
  /\ backend = "SecretManager"
  /\ last.op = "update_document"
  /\ last.exc = "none"
  /\ last.existed
  /\ Len(secrets[last.id]) >= 2
  /\ ~secrets[last.id][1].enabled

\* C18: on the secret store, get_document(id) never raises, and returns None
\* whenever the latest version cannot be had: no such secret, no version,
\* the latest version destroyed, the request failing, or a payload that does
\* not parse; what it returns otherwise is the parsed latest payload.
C18_SecretGetNeverRaises ==
  (backend = "SecretManager" /\ last.op = "get_document") =>
     /\ last.exc = "none"
     /\ \/ last.ret = NoneV
        \/ /\ last.id \in DOMAIN secrets
           /\ Len(secrets[last.id]) > 0
           /\ secrets[last.id][Len(secrets[last.id])].enabled
           /\ last.ret = StoredToken(Store, last.id)
     /\ \A env \in GetEnvs :
          AccessLatest(Store, last.id, env.first).exc # "none" =>
            GetDocument(Store, last.id, last.key, env).ret = NoneV

\* C18's case: get_document was called for a secret whose latest version is
\* destroyed, and returned None.
C18_Witness ==
  /\ backend = "SecretManager"
  /\ last.op = "get_document"
  /\ last.id \in DOMAIN secrets
  /\ Len(secrets[last.id]) > 0
  /\ ~secrets[last.id][Len(secrets[last.id])].enabled
  /\ last.ret = NoneV
  /\ last.exc = "none"

\* ================================= claims about the project credentials

\* The last call resolved the project credentials, both requests answered.
Resolved ==
  /\ read.op = "project_credentials"
  /\ ~read.cached
  /\ read.env = [first |-> "ok", second |-> "ok"]

\* A sub-object that has a client_id and a client_secret.
Complete(x) ==
  x.kind = "dict" /\ {"client_id", "client_secret"} \subseteq DOMAIN x.v

\* C19 (as claimed): when the store holds a document client_id and a
\* document client_secret whose union, the keys of client_secret winning,
\* has a client_id and a client_secret, resolution yields ProjectCredentials
\* of those two; so {client_id: A} and {client_secret: B} yield
\* ProjectCredentials(A, B).
C19_TwoDocumentShape ==
  LET c == StoredToken(Store, "client_id")
      s == StoredToken(Store, "client_secret")
  IN  (/\ Resolved
       /\ c # NoneV /\ TruthyDoc(c.v)
       /\ s # NoneV
       /\ Complete(Dict(DictUpdate(c.v, s.v)))) =>
        /\ read.exc = "none"
        /\ read.ret =
             ProjectCredentials(DictUpdate(c.v, s.v)["client_id"],
                                DictUpdate(c.v, s.v)["client_secret"])

\* C20 (as claimed): when the store holds no document client_id and a
\* document client_secret with a web or an installed sub-object, resolution
\* yields the client_id and client_secret of web when there is one and of
\* installed otherwise.
C20_SingleDocumentShape ==
  LET c == StoredToken(Store, "client_id")
      s == StoredToken(Store, "client_secret")
      chosen == IF "web" \in DOMAIN s.v THEN s.v["web"] ELSE s.v["installed"]
  IN  (/\ Resolved
       /\ c = NoneV
       /\ s # NoneV
       /\ DOMAIN s.v \cap {"web", "installed"} # {}
       /\ Complete(chosen)) =>
        /\ read.exc = "none"
        /\ read.ret = ProjectCredentials(chosen.v["client_id"],
                                         chosen.v["client_secret"])

\* Whether the documents the store holds give both fields in one of the two
\* shapes: the union of the documents client_id and client_secret, or the
\* sub-object web (installed when there is no web) of client_secret alone.
YieldsBoth(c, s) ==
  IF c # NoneV /\ TruthyDoc(c.v)
    THEN Complete(Dict(DictUpdate(c.v, IF s = NoneV THEN EmptyDoc ELSE s.v)))
    ELSE /\ s # NoneV
         /\ DOMAIN s.v \cap {"web", "installed"} # {}
         /\ Complete(IF "web" \in DOMAIN s.v
                       THEN s.v["web"] ELSE s.v["installed"])

\* C21 (as claimed): resolving the project credentials never raises, and
\* when neither shape yields both a client_id and a client_secret the result
\* is None.
C21_ResolutionNeverRaises ==
  (read.op = "project_credentials" /\ ~read.cached) =>
     /\ read.exc = "none"
     /\ ~YieldsBoth(StoredToken(Store, "client_id"),
                    StoredToken(Store, "client_secret")) => read.ret = NoneV

\* C22 (as claimed): over all the reads of project_credentials on one
\* manager the project documents are resolved at most once, and the store
\* is asked at most once for each of the two documents, also when the first
\* resolution gave None or raised.
C22_ResolvedAtMostOnce ==
  read.op = "project_credentials" =>
     (read.resolutions <= 1 /\ read.total_gets <= 2)

\* C23: an assignment to a manager's datastore raises an error, and the
\* manager stays bound to the store instance it had, which is as it was.
C23_DatastoreCannotBeRebound ==
  [][read'.op = "set_datastore" =>
       (read'.exc = "KeyError" /\ Store' = Store)]_vars

\* C23's case: a store of another class was assigned to the datastore of a
\* manager, and the assignment raised.
C23_Witness ==
  /\ read.op = "set_datastore"
  /\ read.assigned # backend
  /\ read.exc = "KeyError"

\* ============================ claims about the lifecycle manager, continued

\* C24 (as claimed): every document store_credentials hands to the store has
\* exactly the fields of a Token, whether the caller supplied a credentials
\* object or a mapping.
C24_Original ==
  (read.op = "store_credentials" /\ read.events = <<"update">>) =>
     DOMAIN read.update_data = TokenFields

\* C24 (amended): every document store_credentials hands to the store for a
\* credentials object has exactly the fields of a Token; a mapping is handed
\* to the store as the caller supplied it.
C24_ObjectStoredInTokenShape ==
  (read.op = "store_credentials" /\ read.events = <<"update">> /\
   read.from_object) =>
     DOMAIN read.update_data = TokenFields

\* C24's case: a caller stored a credentials object, and the store was
\* handed a document.
C24_Witness ==
  /\ read.op = "store_credentials"
  /\ read.events = <<"update">>
  /\ read.from_object
  /\ read.exc = "none"
  /\ read.update_id = EncodeKey(email).ret

\* C25 (as claimed): encode_key of None raises KeyEncodingError and returns
\* nothing; so does the credentials read of a manager constructed without an
\* email, which encodes its email first.
C25_EncodeNoneRaisesKeyEncodingError ==
  (read.op = "credentials" /\ email = NoEmail) =>
     /\ EncodeKey(email).exc = "KeyEncodingError"
     /\ read.exc = "KeyEncodingError"
     /\ read.ret = NoneV

\* C26: a read of auth_headers that returns headers has either found the
\* token unexpired and made no exchange, the header carrying that token, or
\* refreshed it and then stored it, the header carrying the refreshed token;
\* a read that found no token raises CredentialsError and one whose refresh
\* failed raises that failure, and neither returns headers.
C26_HeadersOnlyAfterCredentialsCheck ==
  read.op = "auth_headers" =>
     /\ read.exc = "none" =>
          /\ read.ret.kind = "headers"
          /\ read.token # NoneV
          /\ \/ /\ read.events = << >>
                /\ Strptime(read.token.v["expiry"]) > read.now
                /\ read.ret.authorization = read.token.v["token"]
             \/ /\ read.events = <<"refresh", "update">>
                /\ Strptime(read.token.v["expiry"]) <= read.now
                /\ read.ret.authorization = read.update_data["token"]
                /\ read.update_data["token"] # read.token.v["token"]
     /\ (read.loaded /\ read.token = NoneV) =>
          (read.exc = "CredentialsError" /\ read.ret = NoneV)
     /\ read.refresh_failed =>
          (read.exc = "RefreshError" /\ read.ret = NoneV)
     /\ read.exc # "none" => read.ret = NoneV

\* C26's case: auth_headers was read while the token was expired, and the
\* headers came after the refresh and the store's update.
C26_Witness ==
  /\ read.op = "auth_headers"
  /\ read.exc = "none"
  /\ read.ret.kind = "headers"
  /\ read.events = <<"refresh", "update">>
  /\ Strptime(read.token.v["expiry"]) <= read.now

\* C27 (as claimed): the expiry text store_credentials writes for a
\* credentials object names, with its Z, the instant of the object's expiry
\* in UTC, whether that expiry is naive, aware in UTC or aware in another
\* zone.
C27_ExpiryWrittenInUtc ==
  (read.op = "store_credentials" /\ read.events = <<"update">> /\
   read.from_object) =>
     read.update_data["expiry"] = Strftime(Instant(read.supplied))

\* ====================== claims about the file-backed stores, continued

\* C28 (as claimed): when an instance that has loaded its mapping makes a
\* store_document, update_document or delete_document call, the call
\* rewrites the whole blob from that instance's mapping, so a document the
\* other instance had written since, and that mapping does not have, is no
\* longer in the blob.
C28_LaterMutationRewritesBlob ==
  [][(last'.op \in Mutators /\ last'.was_loaded) =>
       LET mapping == IF last'.instance = "A"
                        THEN datastore' ELSE instanceB'.datastore
       IN  /\ last'.writes >= 1
           /\ ParseBlob(blob') = mapping
           /\ \A i \in DOMAIN ParseBlob(blob) :
                i \notin DOMAIN mapping => i \in last'.dropped]_vars

C30_StoreOrUpdateWritesOnce ==
  (backend \in FileBacked /\ last.op \in {"store_document", "update_document"})
     => last.writes = 1

\* ------------------------------------------------------------ key upload

\* The four backend choices of the command line.
Choices == {"local", "firestore", "secret_manager", "cloud_storage"}

\* The class that stands behind each choice.
ClassOf(choice) ==
  CASE choice = "local"          -> "LocalDatastore"
    [] choice = "firestore"      -> "Firestore"
    [] choice = "secret_manager" -> "SecretManager"
    [] choice = "cloud_storage"  -> "FileDatastore"

\* The keys given with --key.
UploadKeys == {"a@b", "a@"}

\* The value stored for the key under 'email' (values are numbers here).
KeyValue(key) == IF key = "a@b" THEN 2 ELSE 3

\* The data json.loads reads out of the file given with --file.
LoadedData == {[k \in {"k"} |-> 1], [k \in {"k", "email"} |-> 1]}

\* FLAGS.flag_values_dict(), which main hands to upload: the four backend
\* flags are local, firestore, secret_manager and cloud_storage, one of them
\* set.  There is no flag local_store, so args.get('local_store') is None.
FlagValuesDict(choice, key, encode) ==
  [key |-> key, encode_key |-> encode,
   local |-> choice = "local", local_store |-> FALSE,
   firestore |-> choice = "firestore",
   secret_manager |-> choice = "secret_manager",
   cloud_storage |-> choice = "cloud_storage"]

\* The keyword arguments of a caller of upload that names the local store
\* as the function reads it, local_store (as the test of KeyUpload does).
KeywordArgs(choice, key, encode) ==
  [key |-> key, encode_key |-> encode,
   local |-> FALSE, local_store |-> choice = "local",
   firestore |-> choice = "firestore",
   secret_manager |-> choice = "secret_manager",
   cloud_storage |-> choice = "cloud_storage"]

\* The store instance a constructor of the class gives: nothing loaded, the
\* blob and the services as they are.
Construct(class, st) ==
  [st EXCEPT !.backend = class, !.datastore = EmptyDoc, !.loaded = FALSE]

\* upload: the four `if args.get(...)` statements, each of which constructs
\* a store and binds f to it; the sequence of the classes constructed.
UploadSelected(args) ==
  (IF args.local_store THEN <<"LocalDatastore">> ELSE << >>) \o
  (IF args.firestore THEN <<"Firestore">> ELSE << >>) \o
  (IF args.secret_manager THEN <<"SecretManager">> ELSE << >>) \o
  (IF args.cloud_storage THEN <<"FileDatastore">> ELSE << >>)

\* upload(**args): the key, encoded when asked; src_data['email'] = _key;
\* the stores the arguments select; f.update_document(id=key,
\* new_data=src_data) on the last one bound, or UnboundLocalError when f was
\* never bound.
Upload(args, loaded_data, st, env) ==
  LET key == IF args.encode_key THEN EncodeKey(args.key).ret ELSE args.key
      src_data == DictUpdate(loaded_data,
                             [f \in {"email"} |-> KeyValue(args.key)])
      constructed == UploadSelected(args)
  IN  IF constructed = << >>
        THEN [st |-> st, constructed |-> constructed, updates |-> << >>,
              exc |-> "UnboundLocalError"]
        ELSE LET class == constructed[Len(constructed)]
                 u == UpdateDocument(Construct(class, st), key, src_data, env)
             IN  [st |-> u.st, constructed |-> constructed,
                  updates |-> <<[on |-> class, id |-> key,
                                 new_data |-> src_data]>>,
                  exc |-> u.exc]

\* The environments the update_document of an upload can meet.
UploadEnvs(choice) ==
  IF choice = "secret_manager" THEN SecretEnvs
  ELSE IF choice = "firestore" THEN OneRequestEnvs ELSE {NoFault}

\* The upload is over: the store it constructed and the services are as it
\* left them, and read records the call and its outcome.
FinishUpload(entry, choice, args, loaded_data, uploaded) ==
  LET o == uploaded
  IN  /\ Counted("uploads") < MaxUploads
      /\ VersionCount(o.st.secrets, DOMAIN o.st.secrets) <= MaxTokenVersions
      /\ backend' = o.st.backend
      /\ datastore' = o.st.datastore
      /\ loaded' = o.st.loaded
      /\ blob' = o.st.blob
      /\ secrets' = o.st.secrets
      /\ collection' = o.st.collection
      /\ read' = [op |-> "upload", entry |-> entry, choice |-> choice,
                  key |-> args.key, encode_key |-> args.encode_key,
                  loaded_data |-> loaded_data,
                  constructed |-> o.constructed, updates |-> o.updates,
                  exc |-> o.exc, uploads |-> Counted("uploads") + 1]
      /\ UNCHANGED <<last, instanceB, email, token_details,
                     project_credentials, now>>

\* The command line: main hands the flags to upload.
CallMain ==
  \E choice \in Choices, key \in UploadKeys, encode \in BOOLEAN,
     loaded_data \in LoadedData :
   \E env \in UploadEnvs(choice) :
    FinishUpload("main", choice, FlagValuesDict(choice, key, encode),
                 loaded_data,
                 Upload(FlagValuesDict(choice, key, encode), loaded_data,
                        Store, env))

\* A caller of upload with keyword arguments.
CallUpload ==
  \E choice \in Choices, key \in UploadKeys, encode \in BOOLEAN,
     loaded_data \in LoadedData :
   \E env \in UploadEnvs(choice) :
    FinishUpload("upload", choice, KeywordArgs(choice, key, encode),
                 loaded_data,
                 Upload(KeywordArgs(choice, key, encode), loaded_data,
                        Store, env))

\* Before the first upload: no store instance, the blob and the services
\* holding a document under the key, or none.
InitUpload ==
  /\ backend = "LocalDatastore"
  /\ datastore = EmptyDoc
  /\ loaded = FALSE
  /\ \E held \in {EmptyDoc} \cup
                  {[i \in {id} |-> d] : id \in {"a@b", "YUBi"},
                                        d \in LoadedData} :
       /\ blob = IF held = EmptyDoc THEN NoBlob ELSE BlobOf(held)
       /\ secrets = [i \in DOMAIN held |->
                       <<[payload |-> PayloadOf(held[i]), enabled |-> TRUE]>>]
       /\ collection = held
  /\ last = NoCall
  /\ instanceB = NoOther
  /\ email = NoEmail
  /\ token_details = NoCache
  /\ project_credentials = NoCache
  /\ now = 0
  /\ read = NoRead

NextUpload ==
  \/ CallMain
  \/ CallUpload

SpecUpload == InitUpload /\ [][NextUpload]_vars

\* ------------------------------------- every operation of one manager

\* The emails a caller assigns to the manager's email.
AssignedEmails == {"a@b", "a@"}

\* The setter of the property email: self._email = email.
SetEmail(m, e) == [m EXCEPT !.email = e]

\* A call on the manager is over: the manager, its two lazy attributes and
\* the store are as the call left them, and read records the call.
FinishCall(op, out, cache) ==
  LET o == out
  IN  /\ (backend = "SecretManager" =>
            VersionCount(o.st.secrets, DOMAIN o.st.secrets) <= MaxTokenVersions)
      /\ backend' = o.st.backend
      /\ datastore' = o.st.datastore
      /\ loaded' = o.st.loaded
      /\ blob' = o.st.blob
      /\ secrets' = o.st.secrets
      /\ collection' = o.st.collection
      /\ email' = o.m.email
      /\ token_details' = o.m.token_details
      /\ project_credentials' = cache
      /\ read' = [op |-> op, exc |-> o.exc, events |-> o.events,
                  update_id |-> o.update_id, update_data |-> o.update_data,
                  email |-> email,
                  token |-> IF token_details.set
                              THEN token_details.v ELSE NoneV,
                  loaded_for |-> IF token_details.set THEN read.loaded_for
                                 ELSE IF o.m.token_details.set THEN email
                                 ELSE NoEmail]
      /\ UNCHANGED <<last, instanceB, now>>

\* The outcome of the read of project_credentials, as a call on the manager.
ProjectRead(resolved) ==
  LET r == resolved
  IN  FinishCall("project_credentials",
                 MOut(Manager, r.out.st, r.out.ret, r.out.exc), r.cache)

\* The environments of a read of token_details, which only calls
\* get_document.
TokenDetailsEnvs ==
  {e \in CredEnvs : e.refresh = "ok" /\ e.update = NoFault /\
                    \A x \in ExpiresIn : e.expires_in <= x}

ReadProjectCredentials ==
  \E env \in ProjectEnvs :
    ProjectRead(LazyProjectCredentials(project_credentials, Store, env))

ReadTokenDetails ==
  \E env \in TokenDetailsEnvs :
    FinishCall("token_details", TokenDetails(Manager, Store, env),
               project_credentials)

ReadCredentials ==
  \E env \in CredEnvs :
    FinishCall("credentials", GetCredentials(Manager, Store, now, env),
               project_credentials)

ReadAuthHeaders ==
  \E env \in CredEnvs :
    FinishCall("auth_headers", AuthHeaders(Manager, Store, now, env),
               project_credentials)

DoStoreCredentials ==
  \E creds \in InputTokens \cup {OAuthCredentials(1, MaxTime)},
     env \in StoreCredentialsEnvs :
    FinishCall("store_credentials",
               StoreCredentials(MOut(Manager, Store, NoneV, "none"),
                                creds, env),
               project_credentials)

AssignEmail ==
  \E e \in AssignedEmails :
    FinishCall("set_email",
               MOut(SetEmail(Manager, e), Store, NoneV, "none"),
               project_credentials)

\* What the store may hold when the manager is constructed: a token under
\* the id of the user "a@b", or none, and the project's two documents, or
\* one of them, or none.
ManagerMappings ==
  {DictUpdate(t, p) :
     t \in {EmptyDoc} \cup
           {[i \in {EncodeKey("a@b").ret} |-> x] : x \in InputTokens},
     p \in {EmptyDoc,
            [i \in {"client_id"} |-> [k \in {"client_id"} |-> Str("A")]],
            [i \in {"client_id", "client_secret"} |->
               IF i = "client_id"
                 THEN [k \in {"client_id"} |-> Str("A")]
                 ELSE [k \in {"client_secret"} |-> Str("B")]]}}

\* A manager right after construction, bound to its store.
InitManager ==
  /\ backend \in Backends
  /\ datastore = EmptyDoc
  /\ loaded = FALSE
  /\ \E held \in ManagerMappings :
       /\ blob = IF backend \in FileBacked
                   THEN (IF held = EmptyDoc THEN NoBlob ELSE BlobOf(held))
                   ELSE NoBlob
       /\ secrets = IF backend = "SecretManager"
                      THEN [i \in DOMAIN held |->
                              <<[payload |-> PayloadOf(held[i]),
                                 enabled |-> TRUE]>>]
                      ELSE EmptyDoc
       /\ collection = IF backend = "Firestore" THEN held ELSE EmptyDoc
  /\ last = NoCall
  /\ instanceB = NoOther
  /\ email \in Emails
  /\ token_details = NoCache
  /\ project_credentials = NoCache
  /\ now = 0
  /\ read = NoRead

NextManager ==
  \/ ReadProjectCredentials
  \/ ReadTokenDetails
  \/ ReadCredentials
  \/ ReadAuthHeaders
  \/ DoStoreCredentials

SpecManager == InitManager /\ [][NextManager]_vars

\* The manager's operations and assignments to its email.
NextEmail ==
  \/ ReadCredentials
  \/ ReadTokenDetails
  \/ AssignEmail

SpecEmail == InitManager /\ [][NextEmail]_vars

\* ------------------------------- update_document of the secret store, by step

\* The numbers of a set in ascending order, the order the service lists the
\* versions in.
RECURSIVE Ascending(_)
Ascending(numbers) ==
  IF numbers = {} THEN << >>
  ELSE LET least == CHOOSE n \in numbers : \A m \in numbers : n <= m
       IN  <<least>> \o Ascending(numbers \ {least})

\* The loop over the listed versions: one destroy_secret_version request
\* for each; `budget` requests are answered, the next one fails and ends
\* the call.  trace collects the store after every request answered.
RECURSIVE DestroyOlder(_, _, _, _, _)
DestroyOlder(sec, id, todo, budget, trace) ==
  IF todo = << >>
    THEN [secrets |-> sec, trace |-> trace, exc |-> "none"]
    ELSE IF budget = 0
      THEN [secrets |-> sec, trace |-> trace, exc |-> "GoogleAPICallError"]
      ELSE LET after == [sec EXCEPT ![id][Head(todo)] =
                           [payload |-> {}, enabled |-> FALSE]]
           IN  DestroyOlder(after, id, Tail(todo), budget - 1,
                            Append(trace, after))

\* SecretManager.update_document request by request: store_document, the
\* list request, then the destroy requests; trace holds the store after
\* store_document and after every destroy request answered.
SecretUpdateBySteps(st, id, new_data, env, budget) ==
  LET s == SecretStoreDocument(st, id, new_data, env)
  IN  IF s.exc # "none" \/ env.listFault = "error" \/
         id \notin DOMAIN s.st.secrets \/ s.ret = NoneV
        THEN [out |-> SecretUpdateDocument(st, id, new_data, env),
              trace |-> <<s.st.secrets>>]
        ELSE LET vs == s.st.secrets[id]
                 d  == DestroyOlder(
                         s.st.secrets, id,
                         Ascending({n \in 1 .. Len(vs) :
                                      vs[n].enabled /\ OlderVersion(n, s.ret)}),
                         budget, <<s.st.secrets>>)
             IN  [out |-> [s EXCEPT !.ret = NoneV, !.exc = d.exc,
                                    !.st.secrets = d.secrets],
                  trace |-> d.trace]

\* The call is over: the store is as the call left it, and last records the
\* call, the store before it and the store after each of its requests.
FinishSteps(id, new_data, budget, steps) ==
  LET r == steps
  IN  /\ VersionCount(secrets, DOMAIN secrets) < MaxStepVersions
      /\ backend' = r.out.st.backend
      /\ datastore' = r.out.st.datastore
      /\ loaded' = r.out.st.loaded
      /\ blob' = r.out.st.blob
      /\ secrets' = r.out.st.secrets
      /\ collection' = r.out.st.collection
      /\ last' = [op |-> "update_document", id |-> id, arg |-> new_data,
                  exc |-> r.out.exc, before |-> secrets, trace |-> r.trace,
                  budget |-> budget]
      /\ UNCHANGED <<managerVars, instanceB>>

CallUpdateBySteps ==
  \E id \in Ids, new_data \in {[k \in {"k"} |-> 1]}, env \in SecretEnvs,
     budget \in 0 .. MaxStepVersions :
    FinishSteps(id, new_data, budget,
                SecretUpdateBySteps(Store, id, new_data, env, budget))

\* A caller stores a document (which destroys nothing).
CallStoreBySteps ==
  \E id \in Ids, document \in {[k \in {"k"} |-> 0]}, env \in WriteEnvs :
    FinishSteps(id, document, 0,
                [out |-> SecretStoreDocument(Store, id, document, env),
                 trace |-> << >>])

\* A secret store as a caller may find it: no container, or containers
\* with no version or one enabled version.
InitSteps ==
  /\ backend = "SecretManager"
  /\ datastore = EmptyDoc
  /\ loaded = FALSE
  /\ blob = NoBlob
  /\ secrets \in UNION {[ids -> {<< >>,
                                 <<[payload |-> PayloadOf([k \in {"k"} |-> 1]),
                                    enabled |-> TRUE]>>}] :
                          ids \in SUBSET Ids}
  /\ collection = EmptyDoc
  /\ last = NoCall
  /\ instanceB = NoOther
  /\ email = NoEmail
  /\ token_details = NoCache
  /\ project_credentials = NoCache
  /\ now = 0
  /\ read = NoRead

NextSteps ==
  \/ CallUpdateBySteps
  \/ CallStoreBySteps

SpecSteps == InitSteps /\ [][NextSteps]_vars

\* C31: on a file-backed store list_documents() without a key returns the
\* store's mapping of ids to documents, in every state of the store, the
\* empty store included.
C31_ListWithoutKeyReturnsMapping ==
  (backend \in FileBacked /\ last.op = "list_documents" /\ last.key = NoKey)
     => last.ret = Dict(datastore)

\* C32: list_documents(key) that returns gives exactly the set of the
\* sub-keys of the document stored at id key when the store holds that
\* document, and absent when it does not.
C32_ListWithKeyReturnsSubKeys ==
  (last.op = "list_documents" /\ last.key # NoKey /\ last.exc = "none") =>
     LET d == StoredToken(Store, last.key)
     IN  IF d = NoneV
           THEN last.ret = NoneV
           ELSE /\ last.ret # NoneV
                /\ last.ret.kind \in {"keys", "list"}
                /\ last.ret.v = DOMAIN d.v

\* C33: on every backend and in every state of the store, a
\* get_all_documents() call that the service does not fail returns what
\* list_documents() without a key returns.
C33_GetAllSameAsList ==
  (last.op = "get_all_documents" /\ last.exc # "GoogleAPICallError") =>
     LET l == ListDocuments(Store, NoKey, NoFault)
     IN  last.ret = l.ret /\ last.exc = l.exc

\* C34: the credentials read that follows, on the same manager, a
\* store_credentials(c) that wrote c to the store is built from c: the token
\* the read uses carries every field of c as stored, also when the manager
\* had read its token details, or found them absent, before c was stored.
C34_ReadAfterStoreBuiltFromStored ==
  [][(/\ read.op = "store_credentials"
      /\ read.exc = "none"
      /\ read.events = <<"update">>
      /\ read'.op = "credentials"
      /\ read'.get = "ok")
       => /\ read'.token.kind = "dict"
          /\ \A f \in DOMAIN read.update_data :
               /\ f \in DOMAIN read'.token.v
               /\ read'.token.v[f] = read.update_data[f]]_vars

\* C35: on the secret store the creator runs only after a write answered
\* NotFound: a store_document call whose first write succeeds or fails with
\* another error makes that one write and never runs the creator, and a write
\* that fails with another error is the call's last, its error the call's.
C35_OnlyNotFoundTriggersCreate ==
  (backend = "SecretManager" /\ last.op \in {"store_document", "update_document"})
     => /\ last.creates <= last.notfound
        /\ last.notfound = 0 => (last.creates = 0 /\ last.attempts = 1)
        /\ (last.op = "store_document" /\ last.exc = "GoogleAPICallError")
              => last.attempts = last.notfound + 1

\* C35's case: the container was missing, the write failed with an error
\* other than NotFound, and the call ended with it after that one write.
C35_Witness ==
  /\ backend = "SecretManager"
  /\ last.op = "store_document"
  /\ ~last.existed
  /\ last.exc = "GoogleAPICallError"
  /\ last.attempts = 1
  /\ last.creates = 0

\* C36: for each of the four backend choices an upload constructs exactly
\* the store of that choice and calls update_document on it exactly once,
\* with the key, or the encoded key, as id and the loaded data as new_data
\* (the entry 'email', which upload sets itself, aside).
C36_UploadUpdatesSelectedBackendOnce ==
  read.op = "upload" =>
     /\ read.constructed = <<ClassOf(read.choice)>>
     /\ Len(read.updates) = 1
     /\ read.updates[1].on = ClassOf(read.choice)
     /\ read.updates[1].id = IF read.encode_key
                               THEN EncodeKey(read.key).ret ELSE read.key
     /\ LET new_data == read.updates[1].new_data
            fields == (DOMAIN read.loaded_data) \ {"email"}
        IN  /\ (DOMAIN new_data) \ {"email"} = fields
            /\ \A f \in fields : new_data[f] = read.loaded_data[f]

\* The ids a manager's store may hold documents under.
ManagerIds == {"YUBi", "YUA", "client_id", "client_secret"}

\* What the store keeps under an id outside the store instance.
PersistedDoc(st, i) ==
  CASE st.backend \in FileBacked ->
         LET m == ParseBlob(st.blob)
         IN  IF i \in DOMAIN m THEN Dict(m[i]) ELSE NoneV
    [] st.backend = "SecretManager" ->
         IF i \in DOMAIN st.secrets
           THEN [kind |-> "versions", v |-> st.secrets[i]] ELSE NoneV
    [] st.backend = "Firestore" ->
         IF i \in DOMAIN st.collection
           THEN Dict(st.collection[i]) ELSE NoneV

\* The document a loaded file-backed instance holds under an id in memory.
MemoryDoc(st, i) ==
  IF i \in DOMAIN st.datastore THEN Dict(st.datastore[i]) ELSE NoneV

\* The step left the document under id i as it was: what is persisted is
\* the same, and a loaded instance holds in memory what it held, a newly
\* loaded one what was persisted.
DocumentKept(i) ==
  /\ PersistedDoc(Store', i) = PersistedDoc(Store, i)
  /\ (backend \in FileBacked /\ loaded') =>
        MemoryDoc(Store', i) = IF loaded THEN MemoryDoc(Store, i)
                                         ELSE PersistedDoc(Store, i)

\* C37: in any sequence of operations on a manager (project_credentials,
\* token_details, credentials, auth_headers, store_credentials) a step
\* changes no document but the one under
\* encode_key of the manager's email, which it changes only by an
\* update_document call with that id; it removes no document; and a read of
\* project_credentials or of token_details changes no document at all, in
\* memory or persisted.
C37_ManagerWritesOnlyItsUsersDocument ==
  [][LET key == EncodeKey(email)
         wrote == \E n \in 1 .. Len(read'.events) : read'.events[n] = "update"
     IN  /\ \A i \in ManagerIds :
               (i # key.ret \/ ~wrote) => DocumentKept(i)
         /\ wrote => (key.exc = "none" /\ read'.update_id = key.ret)
         /\ \A i \in ManagerIds :
               PersistedDoc(Store, i) # NoneV => PersistedDoc(Store', i) # NoneV
         /\ read'.op \in {"project_credentials", "token_details"}
               => ~wrote]_vars

\* C37's case: the store holds the project's documents and the user's
\* token; a credentials read refreshed the token and updated the user's
\* document.
C37_Witness ==
  /\ read.op = "credentials"
  /\ read.events = <<"refresh", "update">>
  /\ read.exc = "none"
  /\ read.update_id = "YUBi"
  /\ PersistedDoc(Store, "client_id") # NoneV
  /\ PersistedDoc(Store, "YUBi") # NoneV

\* C38: a credentials read that refreshed a token persists it under the
\* encoded id of the user for whom the manager loaded the token, whatever
\* was assigned to the manager's email since.
C38_RefreshedTokenPersistedForItsUser ==
  (read.op = "credentials" /\ read.events = <<"refresh", "update">>) =>
     read.update_id = EncodeKey(read.loaded_for).ret

\* C39: on the secret store, at every step of an update_document of a
\* container that had an enabled version before, the container has an
\* enabled version, also when a request of the update fails; and no version
\* is destroyed before the new one is there, enabled.
C39_EnabledVersionAtEveryStep ==
  (/\ last.op = "update_document"
   /\ last.trace # << >>
   /\ last.id \in DOMAIN last.before
   /\ EnabledVersions(last.before, last.id) # {}) =>
     /\ secrets = last.trace[Len(last.trace)]
     /\ \A n \in 1 .. Len(last.trace) :
          LET sec == last.trace[n]
              old == Len(last.before[last.id])
          IN  /\ last.id \in DOMAIN sec
              /\ EnabledVersions(sec, last.id) # {}
              /\ (EnabledVersions(last.before, last.id) \
                    EnabledVersions(sec, last.id) # {})
                   => /\ Len(sec[last.id]) > old
                      /\ sec[last.id][old + 1].enabled

\* C39's case: a container with two enabled versions was updated, the first
\* destroy request was answered and the second failed.
C39_Witness ==
  /\ last.op = "update_document"
  /\ last.trace # << >>
  /\ last.exc = "GoogleAPICallError"
  /\ Len(last.trace) = 2
  /\ last.id \in DOMAIN last.before
  /\ Cardinality(EnabledVersions(last.before, last.id)) = 2
  /\ Cardinality(EnabledVersions(secrets, last.id)) = 2

\* C40: store_credentials on a manager whose email is None or empty makes
\* no call on the store and raises nothing; the store, its instance
\* included, is as it was.
C40_StoreWithoutEmailDoesNothing ==
  [][(read'.op = "store_credentials" /\ email \in {"", NoEmail}) =>
       /\ read'.exc = "none"
       /\ read'.events = << >>
       /\ storeVars' = storeVars]_vars

\* C40's case: a manager without an email, bound to a store that holds a
\* token, was given credentials to store.
C40_Witness ==
  /\ read.op = "store_credentials"
  /\ email \in {"", NoEmail}
  /\ read.exc = "none"
  /\ read.events = << >>
  /\ PersistedDoc(Store, "YUBi") # NoneV

====
